---------------------------- MODULE Spec2Model ----------------------------
(***************************************************************************)
(* Model of the calibration run-list scheduler (src/calibration_gui.py)    *)
(* and of the race store (src/racemodel.py).                               *)
(*                                                                         *)
(* The GUI thread runs one handler at a time to completion: a Run click,   *)
(* Run All, Reset Status, a settings toggle, a poll-timer timeout, or the  *)
(* delivery of one queued signal of a tool.  A tool's run() executes on a  *)
(* worker thread; its writes of tool.status and its signal emissions are   *)
(* steps of their own that interleave with the GUI thread's handlers.      *)
(* Signals emitted on a worker thread reach the table's slots through the  *)
(* GUI thread's event queue, in emission order.                            *)
(*                                                                         *)
(* The race store is a set of tables in one SQLite file.  Every call of a  *)
(* table model's method runs to completion on the GUI thread: it returns a *)
(* value or raises, and what it wrote before raising stays written.        *)
(***************************************************************************)
EXTENDS Integers, Sequences, FiniteSets, TLC

\* CalibrationTool.STATUS_* (src/calibration_gui.py:24-28)
STATUS_INCOMPLETE == 0
STATUS_PENDING == 1
STATUS_IN_PROGRESS == 2
STATUS_FAILURE == 3
STATUS_SUCCESS == 4

Statuses == {STATUS_INCOMPLETE, STATUS_PENDING, STATUS_IN_PROGRESS,
             STATUS_FAILURE, STATUS_SUCCESS}

\* The tools in row order, as add_tool is called (lines 544-547).
ToolRows == <<"imu_bias", "imu", "camera", "lidar">>

Tools == {ToolRows[i] : i \in 1..Len(ToolRows)}

\* tool.metadata['dependencies'] (lines 539, 542); absent for the IMU tools.
HasDependencies(tool) == tool \in {"camera", "lidar"}

Dependencies(tool) == IF HasDependencies(tool) THEN <<"imu_bias", "imu">> ELSE <<>>

\* Queued signal deliveries the GUI thread has not handled yet: at most this many.
MaxEvents == 2

\* User commands (Run, Run All, Reset Status, a settings toggle) in one
\* behaviour: at most this many.
MaxCommands == 2

VARIABLES
    run_list,           \* CalibrationToolTable.run_list
    run_timer,          \* run_timer.isActive(): the single-shot poll timer is armed
    skip_dependencies,  \* CalibrationToolTable.skip_dependencies
    halt_on_failure,    \* CalibrationToolTable.halt_on_failure
    status,             \* tool.status of every tool
    item_status,        \* item.status of every row: the status the table shows
    pc,                 \* per tool: "idle", "started" (thread started, run() not yet
                        \* entered) or "running" (inside run())
    events,             \* the GUI thread's queue of signals emitted by worker threads
    emitted,            \* the status_changed(int) emissions of the last GUI handler
    exited,             \* the process has terminated (excepthook / abort)
    awaiting,           \* history: per tool, the dependencies its last enqueue placed
                        \* on the run-list that have not finished a run since
    commands,           \* history: the number of user commands so far
    resets,             \* history: the number of times reset_tool_status has run
                        \* (Reset Status, Run All)
    stale,              \* history: reset_tool_status has run while a tool was
                        \* executing or a signal of a tool was still queued
    last,               \* history: the step just taken
    step,               \* per tool: the run_subprocess calls its run() has made
    run_result          \* per tool: how the commands of its run() have ended so
                        \* far: "none", "ok", or the first outcome that is not ok

table_vars == <<run_list, run_timer, skip_dependencies, halt_on_failure, status,
                item_status, pc, events, emitted, exited, awaiting, commands,
                resets, stale, last, step, run_result>>

\* Calls of the race store's methods in one behaviour: at most this many.
MaxCalls == 2

\* Rows of the racer table of a race file that is opened: at most this many.
MaxRacers == 3

\* Rows of the result table of a race file that is opened: at most this many.
MaxResults == 2

VARIABLES
    race_table,         \* the rows of RaceTableModel, in table order
    field_table,        \* the rows of FieldTableModel, in table order
    racer_table,        \* the rows of RacerTableModel, in table order
    result_table,       \* the rows of ResultTableModel, in table order
    failing,            \* the storage engine reports failure on every operation
                        \* it is asked for (the file cannot be written or read)
    faults,             \* what the storage engine answers to the operations it
                        \* is asked for next, one after the other: TRUE for
                        \* failure (the file is locked by another process for a
                        \* moment); after the last of them it is as failing says
    editStrategy,       \* editStrategy() of RacerTableModel
    call,               \* history: the last call of a store method: its name, its
                        \* arguments, the exception it raised ("none" if it
                        \* returned), the value it returned, the dataChanged
                        \* signals it emitted, whether the storage engine was
                        \* failing, and the tables as they were before the call
    prior,              \* history: the call before the last one
    calls               \* history: the number of calls so far

store_vars == <<race_table, field_table, racer_table, result_table, failing, faults,
                editStrategy, call, prior, calls>>

vars == <<table_vars, store_vars>>

-----------------------------------------------------------------------------
(* Sequence helpers *)

InList(list, tool) == \E i \in 1..Len(list) : list[i] = tool

\* list.remove(tool): drops the first occurrence.
RECURSIVE ListRemove(_, _)
ListRemove(list, tool) ==
    IF list = <<>> THEN <<>>
    ELSE IF Head(list) = tool THEN Tail(list)
    ELSE <<Head(list)>> \o ListRemove(Tail(list), tool)

Count(st, s) == Cardinality({t \in Tools : st[t] = s})

-----------------------------------------------------------------------------
(* The table's methods, as functions of the table state T: a record with    *)
(* the fields run_list, run_timer, status, item_status, pc, emitted,        *)
(* exited, awaiting.                                                        *)

\* CombinedStatus with the Incomplete branch lost: tools still Incomplete no
\* longer keep the combined status from Success.
CombinedStatusNoIncomplete(st) ==
    IF Count(st, STATUS_IN_PROGRESS) # 0 THEN STATUS_IN_PROGRESS
    ELSE IF Count(st, STATUS_FAILURE) # 0 THEN STATUS_FAILURE
    ELSE IF Count(st, STATUS_PENDING) # 0 THEN STATUS_PENDING
    ELSE STATUS_SUCCESS

\* "Calculate combined status" of set_status (lines 619-647): the counts are
\* taken over tool.status, not over the displayed item.status.
CombinedStatus(st) ==
    LET num_incomplete == Count(st, STATUS_INCOMPLETE)
        num_pending == Count(st, STATUS_PENDING)
        num_in_progress == Count(st, STATUS_IN_PROGRESS)
        num_failure == Count(st, STATUS_FAILURE)
    IN  IF num_in_progress # 0 THEN STATUS_IN_PROGRESS
        ELSE IF num_failure # 0 THEN STATUS_FAILURE
        ELSE IF num_pending # 0 THEN STATUS_PENDING
        ELSE IF num_incomplete # 0 /\ num_pending = 0 THEN STATUS_INCOMPLETE
        ELSE STATUS_SUCCESS

\* set_status(row, status) (lines 612-649): sets the row's displayed status,
\* then emits the combined status.  Each call is recorded: the row, its
\* displayed status before and after, the calling method (by), the combined
\* status emitted and the statuses it was computed in.
set_status(T, tool, s, by) ==
    LET shown == [T.item_status EXCEPT ![tool] = s]
    IN  [T EXCEPT !.item_status = shown,
                  !.emitted = Append(@, [tool |-> tool,
                                         from |-> T.item_status[tool],
                                         to |-> s,
                                         by |-> by,
                                         agg |-> CombinedStatus(T.status),
                                         status |-> T.status,
                                         item |-> shown])]

\* The append at the end of add_to_run_list (lines 585-587).
AppendTool(T, tool) ==
    set_status([T EXCEPT !.run_list = Append(@, tool)], tool, STATUS_PENDING,
               "add_to_run_list")

RECURSIVE add_to_run_list(_, _, _)
RECURSIVE AddDependencies(_, _, _)

\* AddDependencies without the test of the dependency's status: a dependency
\* that already succeeded is enqueued again.
RECURSIVE AddDependenciesAlways(_, _, _)
AddDependenciesAlways(T, deps, skip) ==
    IF deps = <<>> THEN T
    ELSE AddDependenciesAlways(add_to_run_list(T, Head(deps), skip), Tail(deps), skip)

\* The loop over tool.metadata['dependencies'] (lines 581-583).
AddDependencies(T, deps, skip) ==
    IF deps = <<>> THEN T
    ELSE LET T1 == IF T.status[Head(deps)] # STATUS_SUCCESS
                   THEN add_to_run_list(T, Head(deps), skip)
                   ELSE T
         IN  AddDependencies(T1, Tail(deps), skip)

\* add_to_run_list appending the tool before its dependencies.
add_to_run_list_tool_first(T, tool, skip) ==
    IF InList(T.run_list, tool) THEN T
    ELSE LET T0 == AppendTool(T, tool)
             T1 == IF ~skip /\ HasDependencies(tool)
                   THEN AddDependencies(T0, Dependencies(tool), skip)
                   ELSE T0
             placed == {T1.run_list[i] : i \in 1..Len(T1.run_list)}
                       \ {T0.run_list[i] : i \in 1..Len(T0.run_list)}
         IN  [T1 EXCEPT !.awaiting[tool] = placed]

\* add_to_run_list without the test for a tool that is already queued.
add_to_run_list_no_check(T, tool, skip) ==
    LET T1 == IF ~skip /\ HasDependencies(tool)
              THEN AddDependencies(T, Dependencies(tool), skip)
              ELSE T
        placed == {T1.run_list[i] : i \in 1..Len(T1.run_list)}
                  \ {T.run_list[i] : i \in 1..Len(T.run_list)}
    IN  AppendTool([T1 EXCEPT !.awaiting[tool] = placed], tool)

\* add_to_run_list (lines 574-587).  awaiting[tool] records the dependencies
\* this call placed on the run-list.
add_to_run_list(T, tool, skip) ==
    IF InList(T.run_list, tool) THEN T
    ELSE LET T1 == IF ~skip /\ HasDependencies(tool)
                   THEN AddDependencies(T, Dependencies(tool), skip)
                   ELSE T
             placed == {T1.run_list[i] : i \in 1..Len(T1.run_list)}
                       \ {T.run_list[i] : i \in 1..Len(T.run_list)}
         IN  AppendTool([T1 EXCEPT !.awaiting[tool] = placed], tool)

\* remove_from_run_list (lines 589-595).
remove_from_run_list(T, tool) ==
    IF InList(T.run_list, tool)
    THEN [set_status(T, tool, STATUS_INCOMPLETE, "remove_from_run_list")
             EXCEPT !.run_list = ListRemove(T.run_list, tool)]
    ELSE T

\* clear_run_list (lines 597-602).
RECURSIVE clear_run_list(_)
clear_run_list(T) ==
    IF T.run_list # <<>>
    THEN clear_run_list(remove_from_run_list(T, Head(T.run_list)))
    ELSE [T EXCEPT !.run_timer = TRUE]

\* The loop of halt over the rows (lines 607-610).
RECURSIVE HaltRows(_, _)
HaltRows(T, row) ==
    IF row > Len(ToolRows) THEN T
    ELSE HaltRows(IF T.status[ToolRows[row]] = STATUS_PENDING
                  THEN set_status(T, ToolRows[row], STATUS_INCOMPLETE, "halt")
                  ELSE T,
                  row + 1)

\* halt (lines 604-610).
halt(T) == HaltRows(clear_run_list(T), 1)

\* tool.start() (lines 62-72).  Starting a tool whose previous thread is still
\* executing replaces self.thread while that QThread runs and calls
\* moveToThread from a thread the object does not live in: the process either
\* aborts or the call has no effect on the run in progress (ub chooses).
start(T, tool, ub) ==
    IF T.pc[tool] = "idle" THEN [T EXCEPT !.pc[tool] = "started"]
    ELSE IF ub = "abort" THEN [T EXCEPT !.exited = TRUE]
    ELSE T

\* check_run_list that does not start the timer again when it finds the
\* run-list empty.
check_run_list_no_rearm(T, halt_enabled, ub) ==
    IF T.run_list = <<>> THEN T
    ELSE IF halt_enabled /\ \E t \in Tools : T.status[t] = STATUS_FAILURE
    THEN halt(T)
    ELSE start(T, Head(T.run_list), ub)

\* check_run_list looking for a failure at the status the rows show instead
\* of tool.status: a failed tool that is queued again shows Pending.
check_run_list_shown(T, halt_enabled, ub) ==
    IF T.run_list = <<>> THEN [T EXCEPT !.run_timer = TRUE]
    ELSE IF halt_enabled /\ \E t \in Tools : T.item_status[t] = STATUS_FAILURE
    THEN halt(T)
    ELSE start(T, Head(T.run_list), ub)

\* check_run_list (lines 558-572).
check_run_list(T, halt_enabled, ub) ==
    IF T.run_list = <<>> THEN [T EXCEPT !.run_timer = TRUE]
    ELSE IF halt_enabled /\ \E t \in Tools : T.status[t] = STATUS_FAILURE
    THEN halt(T)
    ELSE start(T, Head(T.run_list), ub)

\* handle_tool_finished without del self.run_list[0]: the finished tool
\* stays at the head of the run-list.
handle_tool_finished_keep_head(T, halt_enabled, ub) ==
    IF T.run_list = <<>> THEN [T EXCEPT !.exited = TRUE]
    ELSE check_run_list(T, halt_enabled, ub)

\* handle_tool_finished (lines 702-704).  del self.run_list[0] on an empty
\* list raises IndexError: excepthook (lines 878-890) ends the process.
handle_tool_finished(T, halt_enabled, ub) ==
    IF T.run_list = <<>> THEN [T EXCEPT !.exited = TRUE]
    ELSE check_run_list([T EXCEPT !.run_list = Tail(@)], halt_enabled, ub)

\* The loop of reset_tool_status over the rows (lines 723-725); tool.reset()
\* is line 78.
RECURSIVE ResetRows(_, _)
ResetRows(T, row) ==
    IF row > Len(ToolRows) THEN T
    ELSE ResetRows(set_status([T EXCEPT !.status[ToolRows[row]] = STATUS_INCOMPLETE],
                              ToolRows[row], STATUS_INCOMPLETE, "reset_tool_status"),
                   row + 1)

\* reset_tool_status without the loop over the rows: only the run-list is
\* cleared.
reset_tool_status_no_rows(T) == clear_run_list(T)

\* reset_tool_status (lines 720-725).
reset_tool_status(T) == ResetRows(clear_run_list(T), 1)

\* The loop of run_all_tools (lines 715-718): each Run button is clicked.
RECURSIVE ClickRows(_, _, _)
ClickRows(T, row, skip) ==
    IF row > Len(ToolRows) THEN T
    ELSE ClickRows(add_to_run_list(T, ToolRows[row], skip), row + 1, skip)

\* run_all_tools (lines 712-718).
run_all_tools(T, skip) == ClickRows(reset_tool_status(T), 1, skip)

-----------------------------------------------------------------------------
(* State <-> table record *)

Table ==
    [run_list |-> run_list, run_timer |-> run_timer, status |-> status,
     item_status |-> item_status, pc |-> pc, emitted |-> <<>>,
     exited |-> exited, awaiting |-> awaiting]

Becomes(T) ==
    /\ run_list' = T.run_list
    /\ run_timer' = T.run_timer
    /\ status' = T.status
    /\ item_status' = T.item_status
    /\ pc' = T.pc
    /\ emitted' = T.emitted
    /\ exited' = T.exited
    /\ awaiting' = T.awaiting

UBOutcomes == {"abort", "ignored"}

\* The step just taken: the handler (or "worker") and the tool it was for.
Op(op, tool) == [op |-> op, tool |-> tool]

\* The run_subprocess calls of a tool's run() (lines 183-188).
NumCommands == 6

\* How an external command can end: exit status 0 within the timeout, a
\* non-zero exit status, or completion only after the timeout has passed.
Outcomes == {"ok", "nonzero", "timeout"}

-----------------------------------------------------------------------------
(* The race store (src/racemodel.py)                                        *)
(*                                                                          *)
(* A table is the sequence of its rows in table order; a row is a record    *)
(* of its columns.  A store method is a function of the database D and of   *)
(* its arguments.  D is a record of the four tables, of failing (the        *)
(* storage engine reports failure on every operation it is asked for), of   *)
(* faults and editStrategy, and                                             *)
(* of dataChanged (the dataChanged signals the method has emitted itself so *)
(* far, each the row and the column of its index).  The result is a record  *)
(* of the database the method leaves, the exception it raised ("none" when  *)
(* it returned) and the value it returned: <<>> for None, <<v>> for v.      *)

\* sys.maxsize (line 60), of a build with 32-bit Py_ssize_t.
maxsize == 2147483647

\* The reserved time-delta values (lines 60-64).
MSECS_UNINITIALIZED == -maxsize
MSECS_DNS == -maxsize + 1
MSECS_DNF == -maxsize + 2
MSECS_DNP == -maxsize + 3
MSECS_SMALLEST_VALID == -maxsize + 100

\* msecs_is_valid (lines 66-68).
msecs_is_valid(msecs) == msecs > MSECS_SMALLEST_VALID

Database ==
    [race_table |-> race_table, field_table |-> field_table,
     racer_table |-> racer_table, result_table |-> result_table,
     failing |-> failing, faults |-> faults, editStrategy |-> editStrategy,
     dataChanged |-> <<>>]

\* A method returns value (return), or raises exc (raise).
Return(D, value) == [db |-> D, raised |-> "none", value |-> value]

Raise(D, exc) == [db |-> D, raised |-> exc, value |-> <<>>]

\* The value SQLite stores in a column of INTEGER affinity (racer.bib, line
\* 806) for a text that is bound to it, shown as the text the model's data()
\* converts to when match() compares it with a text: a well-formed integer
\* literal is stored as that integer ("01" as 1), any other text as it is.
IntegerAffinity(text) == IF text = "01" THEN "1" ELSE text

\* self.match(self.index(0, column), Qt.DisplayRole, value, 1,
\* Qt.MatchExactly): the first row whose column equals value, 0 for the
\* empty list.
match(table, column, value) ==
    LET hits == {i \in 1..Len(table) : table[i][column] = value}
    IN  IF hits = {} THEN 0 ELSE CHOOSE i \in hits : \A j \in hits : i <= j

\* The id SQLite gives a row inserted without one (INTEGER PRIMARY KEY, lines
\* 609, 805, 1232): one more than the largest id in the table.
NextId(table) ==
    IF table = <<>> THEN 1
    ELSE 1 + (CHOOSE m \in {table[i].id : i \in 1..Len(table)} :
                  \A i \in 1..Len(table) : table[i].id <= m)

\* The columns of a table that its CREATE TABLE statement declares UNIQUE
\* (field.name, line 610; racer.bib, line 806).
Unique(table) ==
    IF table = "field_table" THEN {"name"}
    ELSE IF table = "racer_table" THEN {"bib"}
    ELSE {}

\* The insert of record breaks a UNIQUE constraint of the table.
BreaksUnique(table, record, column) ==
    \E i \in 1..Len(table) : table[i][column] = record[column]

\* The storage engine fails the operation it is asked for now.
Fails(D) == IF D.faults # <<>> THEN Head(D.faults) ELSE D.failing

\* The database after the engine has answered one operation.
Asked(D) == [D EXCEPT !.faults = IF @ = <<>> THEN @ ELSE Tail(@)]

\* The edits of the table are kept in the cache of its model and the engine
\* is not asked: the edit strategy of the racer table is OnManualSubmit
\* (line 1099).  The other tables are always OnFieldChange (lines 400, 588,
\* 1213).  The tables of D are the rows the file holds.
Cached(D, table) == table = "racer_table" /\ D.editStrategy = "OnManualSubmit"

\* insertRecord into tables that have no UNIQUE constraint.
insertRecord_no_constraint(D, table, record) ==
    IF Cached(D, table) THEN Return(D, <<TRUE>>)
    ELSE IF Fails(D) THEN Raise(Asked(D), "DatabaseError")
    ELSE Return(Asked([D EXCEPT ![table] = Append(@, record)]), <<TRUE>>)

\* TableModel.insertRecord (lines 248-257): the parent's insertRecord returns
\* False when the engine fails or the row breaks a constraint of the table.
insertRecord(D, table, record) ==
    IF Cached(D, table) THEN Return(D, <<TRUE>>)
    ELSE IF Fails(D) \/ \E column \in Unique(table) : BreaksUnique(D[table], record, column)
    THEN Raise(Asked(D), "DatabaseError")
    ELSE Return(Asked([D EXCEPT ![table] = Append(@, record)]), <<TRUE>>)

\* The rows of a table without its row-th one, in the same order.
RowsWithout(table, row) ==
    [i \in 1..(Len(table) - 1) |-> IF i < row THEN table[i] ELSE table[i + 1]]

\* TableModel.removeRow (lines 259-268).
removeRow(D, table, row) ==
    IF Cached(D, table) THEN Return(D, <<TRUE>>)
    ELSE IF Fails(D) THEN Raise(Asked(D), "DatabaseError")
    ELSE Return(Asked([D EXCEPT ![table] = RowsWithout(@, row)]), <<TRUE>>)

\* The parent's submitAll for the cached rows from row on: it asks the engine
\* for one UPDATE for every row of the cache that has a changed value, in
\* row order and in no transaction, and stops at the first that fails; after
\* the last one it asks for the select that reads the table again.
RECURSIVE SubmitRows(_, _, _, _)
SubmitRows(D, table, rows, row) ==
    IF row > Len(rows)
    THEN IF Fails(D) THEN Raise(Asked(D), "DatabaseError")
         ELSE Return(Asked(D), <<TRUE>>)
    ELSE IF rows[row] = D[table][row] THEN SubmitRows(D, table, rows, row + 1)
    ELSE IF Fails(D) THEN Raise(Asked(D), "DatabaseError")
    ELSE SubmitRows(Asked([D EXCEPT ![table][row] = rows[row]]), table, rows, row + 1)

\* TableModel.submitAll (lines 281-290), called with the rows as the cache of
\* the model holds them under OnManualSubmit.
submitAll(D, table, rows) == SubmitRows(D, table, rows, 1)

\* self.setData(index, value), which no table model overrides.  A value equal
\* to the cell's is not written (returns True).  With the edit strategy
\* OnFieldChange (lines 400, 588, 762) another value is submitted to the
\* engine at once, and setData returns what the engine reports, True or
\* False; with OnManualSubmit the value is kept in the cache and setData
\* returns True.  It raises nothing.
setData(D, table, row, column, value) ==
    IF D[table][row][column] = value \/ Cached(D, table) THEN Return(D, <<TRUE>>)
    ELSE IF Fails(D) THEN Return(Asked(D), <<FALSE>>)
    ELSE Return(Asked([D EXCEPT ![table][row][column] = value]), <<TRUE>>)

\* self.dataChanged.emit(index, index) for the index of a row and a column.
emit(D, row, column) == [D EXCEPT !.dataChanged = Append(@, <<row, column>>)]

\* FieldTableModel.id_from_name (lines 634-644); 0 stands for None: ids start
\* at 1, and the callers test the id with "not".
id_from_name(D, name) ==
    LET row == match(D.field_table, "name", name)
    IN  IF row = 0 THEN 0 ELSE D.field_table[row].id

\* What data() shows in the field column of a racer row (the relation of
\* lines 793-795): the name of the Field row with the racer's field_id.
FieldName(D, field_id) ==
    LET row == match(D.field_table, "id", field_id)
    IN  IF row = 0 THEN "" ELSE D.field_table[row].name

\* add_field without the test for a name that is in use.
add_field_no_dup_check(D, name) ==
    IF name = "" THEN Raise(D, "InputError")
    ELSE LET record == [id |-> NextId(D.field_table), name |-> name]
             inserted == insertRecord(D, "field_table", record)
         IN  IF inserted.raised # "none" THEN inserted
             ELSE Return(inserted.db, <<>>)

\* FieldTableModel.add_field (lines 646-662).
add_field(D, name) ==
    IF name = "" THEN Raise(D, "InputError")
    ELSE IF match(D.field_table, "name", name) # 0 THEN Raise(D, "InputError")
    ELSE LET record == [id |-> NextId(D.field_table), name |-> name]
             inserted == insertRecord(D, "field_table", record)
         IN  IF inserted.raised # "none" THEN inserted
             ELSE Return(inserted.db, <<>>)

\* The racer row add_racer inserts (lines 860-883).
RacerRecord(D, bib, first_name, last_name, field_id, category, team, age, start_time, finish, racer_status, metadata) ==
    [id |-> NextId(D.racer_table), bib |-> IntegerAffinity(bib),
     first_name |-> first_name, last_name |-> last_name, field_id |-> field_id,
     category |-> category, team |-> team, age |-> age,
     start |-> start_time, finish |-> finish, status |-> racer_status,
     metadata |-> metadata]

\* add_racer using the id it looked up before it added the field.
add_racer_stale_id(D, bib, first_name, last_name, field, category, team, age, start_time, finish, racer_status, metadata) ==
    IF match(D.racer_table, "bib", bib) # 0 THEN Raise(D, "InputError")
    ELSE IF first_name = "" /\ last_name = "" THEN Raise(D, "InputError")
    ELSE IF field = "" THEN Raise(D, "TypeError")
    ELSE LET field_id == id_from_name(D, field)
             added == IF field_id = 0 THEN add_field(D, field) ELSE Return(D, <<>>)
             record == RacerRecord(added.db, bib, first_name, last_name, field_id,
                                   category, team, age, start_time, finish,
                                   racer_status, metadata)
             inserted == insertRecord(added.db, "racer_table", record)
         IN  IF added.raised # "none" THEN added
             ELSE IF inserted.raised # "none" THEN inserted
             ELSE Return(inserted.db, <<>>)

\* RacerTableModel.add_racer (lines 821-885).  With an empty field the
\* message of line 850 is formatted with an argument it has no place for:
\* TypeError.  An exception of add_field (line 854) leaves add_racer.
add_racer(D, bib, first_name, last_name, field, category, team, age, start_time, finish, racer_status, metadata) ==
    IF match(D.racer_table, "bib", bib) # 0 THEN Raise(D, "InputError")
    ELSE IF first_name = "" /\ last_name = "" THEN Raise(D, "InputError")
    ELSE IF field = "" THEN Raise(D, "TypeError")
    ELSE LET added == IF id_from_name(D, field) = 0 THEN add_field(D, field)
                      ELSE Return(D, <<>>)
             field_id == id_from_name(added.db, field)
             record == RacerRecord(added.db, bib, first_name, last_name, field_id,
                                   category, team, age, start_time, finish,
                                   racer_status, metadata)
             inserted == insertRecord(added.db, "racer_table", record)
         IN  IF added.raised # "none" THEN added
             ELSE IF field_id = 0 THEN Raise(added.db, "InputError")
             ELSE IF inserted.raised # "none" THEN inserted
             ELSE Return(inserted.db, <<>>)

\* The columns update_racer compares and writes, in the order of lines
\* 922-970.
UpdateColumns == <<"first_name", "last_name", "field_id", "category", "team",
                   "age", "start", "finish", "status", "metadata">>

\* record.value(name) for the record of a racer row (line 920), <<>> for
\* None.  The record of the relational model names its field column by the
\* field table's display column (FIELD_ALIAS, line 745; lines 866-874 rename
\* it for the insert), so that it has no field of the name field_id (FIELD):
\* value() of a name the record does not have is an invalid value, None.
RecordValue(record, name) ==
    IF name = "field_id" THEN <<>> ELSE <<record[name]>>

\* The comparisons and writes of update_racer (lines 922-970), from the k-th
\* column on: a column whose value in the record differs from the supplied
\* one is written with setData, whose result is not looked at, and
\* dataChanged is emitted for its index.
RECURSIVE UpdateRow(_, _, _, _, _)
UpdateRow(D, row, record, values, k) ==
    IF k > Len(UpdateColumns) THEN Return(D, <<>>)
    ELSE LET column == UpdateColumns[k]
         IN  IF RecordValue(record, column) # <<values[column]>>
             THEN UpdateRow(
                      emit(setData(D, "racer_table", row, column, values[column]).db,
                           row, column),
                      row, record, values, k + 1)
             ELSE UpdateRow(D, row, record, values, k + 1)

\* update_racer using the id it looked up before it added the field.
update_racer_stale_id(D, bib, first_name, last_name, field, category, team, age, start_time, finish, racer_status, metadata) ==
    LET row == match(D.racer_table, "bib", bib)
    IN  IF row = 0 THEN Raise(D, "InputError")
        ELSE IF first_name = "" /\ last_name = "" THEN Raise(D, "InputError")
        ELSE IF field = "" THEN Raise(D, "TypeError")
        ELSE LET field_id == id_from_name(D, field)
                 added == IF field_id = 0 THEN add_field(D, field) ELSE Return(D, <<>>)
                 values == [first_name |-> first_name, last_name |-> last_name,
                            field_id |-> field_id, category |-> category,
                            team |-> team, age |-> age, start |-> start_time,
                            finish |-> finish, status |-> racer_status,
                            metadata |-> metadata]
             IN  IF added.raised # "none" THEN added
                 ELSE UpdateRow(added.db, row, added.db.racer_table[row], values, 1)

\* RacerTableModel.update_racer (lines 887-970).
update_racer(D, bib, first_name, last_name, field, category, team, age, start_time, finish, racer_status, metadata) ==
    LET row == match(D.racer_table, "bib", bib)
    IN  IF row = 0 THEN Raise(D, "InputError")
        ELSE IF first_name = "" /\ last_name = "" THEN Raise(D, "InputError")
        ELSE IF field = "" THEN Raise(D, "TypeError")
        ELSE LET added == IF id_from_name(D, field) = 0 THEN add_field(D, field)
                          ELSE Return(D, <<>>)
                 field_id == id_from_name(added.db, field)
                 values == [first_name |-> first_name, last_name |-> last_name,
                            field_id |-> field_id, category |-> category,
                            team |-> team, age |-> age, start |-> start_time,
                            finish |-> finish, status |-> racer_status,
                            metadata |-> metadata]
             IN  IF added.raised # "none" THEN added
                 ELSE IF field_id = 0 THEN Raise(added.db, "InputError")
                 ELSE UpdateRow(added.db, row, added.db.racer_table[row], values, 1)

\* delete_racer returning when no racer has the bib.
delete_racer_quiet(D, bib) ==
    LET row == match(D.racer_table, "bib", bib)
        removed == removeRow(D, "racer_table", row)
    IN  IF row = 0 THEN Return(D, <<>>)
        ELSE IF removed.raised # "none" THEN removed
        ELSE Return(removed.db, <<>>)

\* RacerTableModel.delete_racer (lines 972-982).
delete_racer(D, bib) ==
    LET row == match(D.racer_table, "bib", bib)
        removed == removeRow(D, "racer_table", row)
    IN  IF row = 0 THEN Raise(D, "InputError")
        ELSE IF removed.raised # "none" THEN removed
        ELSE Return(removed.db, <<>>)

\* RacerTableModel.racer_exists (lines 984-989).
racer_exists(D, bib) == Return(D, <<match(D.racer_table, "bib", bib) # 0>>)

\* RacerTableModel.get_racer_metadata (lines 991-1000).
get_racer_metadata(D, bib) ==
    LET row == match(D.racer_table, "bib", bib)
    IN  IF row = 0 THEN Raise(D, "InputError")
        ELSE Return(D, <<D.racer_table[row].metadata>>)

\* RacerTableModel.set_racer_metadata (lines 1002-1012).
set_racer_metadata(D, bib, metadata) ==
    LET row == match(D.racer_table, "bib", bib)
    IN  IF row = 0 THEN Raise(D, "InputError")
        ELSE Return(emit(setData(D, "racer_table", row, "metadata", metadata).db,
                         row, "metadata"), <<>>)

\* RacerTableModel.set_racer_start (lines 1014-1024).
set_racer_start(D, bib, start_time) ==
    LET row == match(D.racer_table, "bib", bib)
    IN  IF row = 0 THEN Raise(D, "InputError")
        ELSE Return(emit(setData(D, "racer_table", row, "start", start_time).db,
                         row, "start"), <<>>)

\* set_racer_finish writing the finish of every racer.
set_racer_finish_all(D, bib, finish) ==
    LET row == match(D.racer_table, "bib", bib)
    IN  IF row = 0 THEN Raise(D, "InputError")
        ELSE Return([D EXCEPT !.racer_table =
                        [i \in 1..Len(@) |-> [@[i] EXCEPT !.finish = finish]]], <<>>)

\* RacerTableModel.set_racer_finish (lines 1026-1036).
set_racer_finish(D, bib, finish) ==
    LET row == match(D.racer_table, "bib", bib)
    IN  IF row = 0 THEN Raise(D, "InputError")
        ELSE Return(emit(setData(D, "racer_table", row, "finish", finish).db,
                         row, "finish"), <<>>)

\* RacerTableModel.set_racer_status (lines 1038-1048).
set_racer_status(D, bib, racer_status) ==
    LET row == match(D.racer_table, "bib", bib)
    IN  IF row = 0 THEN Raise(D, "InputError")
        ELSE Return(emit(setData(D, "racer_table", row, "status", racer_status).db,
                         row, "status"), <<>>)

\* ResultTableModel.add_result (lines 1239-1246).
add_result(D, scratchpad, finish) ==
    LET record == [id |-> NextId(D.result_table), scratchpad |-> scratchpad,
                   finish |-> finish]
        inserted == insertRecord(D, "result_table", record)
    IN  IF inserted.raised # "none" THEN inserted
        ELSE Return(inserted.db, <<>>)

\* submit_result removing the Result row before it updates the racer.
submit_result_remove_first(D, row) ==
    LET record == D.result_table[row]
        removed == removeRow(D, "result_table", row)
        finish_set == set_racer_finish(removed.db, record.scratchpad, record.finish)
        status_set == set_racer_status(finish_set.db, record.scratchpad, "local")
    IN  IF removed.raised # "none" THEN removed
        ELSE IF finish_set.raised # "none" THEN finish_set
        ELSE status_set

\* ResultTableModel.submit_result (lines 1248-1256).
submit_result(D, row) ==
    LET record == D.result_table[row]
        finish_set == set_racer_finish(D, record.scratchpad, record.finish)
        status_set == set_racer_status(finish_set.db, record.scratchpad, "local")
        removed == removeRow(status_set.db, "result_table", row)
    IN  IF finish_set.raised # "none" THEN finish_set
        ELSE IF status_set.raised # "none" THEN status_set
        ELSE IF removed.raised # "none" THEN removed
        ELSE Return(removed.db, <<>>)

\* AssignRows advancing the start time on the rows of other fields too.
RECURSIVE AssignRowsEveryRow(_, _, _, _, _, _, _)
AssignRowsEveryRow(D, row, field_name, start_time, interval, dry_run, starts_overwritten) ==
    IF row > Len(D.racer_table)
    THEN Return(IF dry_run THEN D ELSE emit(D, 0, ""), <<starts_overwritten>>)
    ELSE IF field_name # "" /\ field_name # FieldName(D, D.racer_table[row].field_id)
    THEN AssignRowsEveryRow(D, row + 1, field_name, start_time + interval * 1000,
                            interval, dry_run, starts_overwritten)
    ELSE AssignRowsEveryRow(
             IF ~dry_run THEN setData(D, "racer_table", row, "start", start_time).db ELSE D,
             row + 1, field_name, start_time + interval * 1000, interval, dry_run,
             IF dry_run /\ D.racer_table[row].start # MSECS_UNINITIALIZED
             THEN starts_overwritten + 1 ELSE starts_overwritten)

\* AssignRows counting, in a dry run, the rows whose start is a valid
\* time-delta.
RECURSIVE AssignRowsCountValid(_, _, _, _, _, _, _)
AssignRowsCountValid(D, row, field_name, start_time, interval, dry_run, starts_overwritten) ==
    IF row > Len(D.racer_table)
    THEN Return(IF dry_run THEN D ELSE emit(D, 0, ""), <<starts_overwritten>>)
    ELSE IF field_name # "" /\ field_name # FieldName(D, D.racer_table[row].field_id)
    THEN AssignRowsCountValid(D, row + 1, field_name, start_time, interval, dry_run,
                              starts_overwritten)
    ELSE AssignRowsCountValid(
             IF ~dry_run THEN setData(D, "racer_table", row, "start", start_time).db ELSE D,
             row + 1, field_name, start_time + interval * 1000, interval, dry_run,
             IF dry_run /\ msecs_is_valid(D.racer_table[row].start)
             THEN starts_overwritten + 1 ELSE starts_overwritten)

\* The loop of assign_start_times over the rows and its return (lines
\* 1071-1090).  The result of setData is not looked at; row 0 and column ""
\* stand for the invalid index QModelIndex() of line 1088.
RECURSIVE AssignRows(_, _, _, _, _, _, _)
AssignRows(D, row, field_name, start_time, interval, dry_run, starts_overwritten) ==
    IF row > Len(D.racer_table)
    THEN Return(IF dry_run THEN D ELSE emit(D, 0, ""), <<starts_overwritten>>)
    ELSE IF field_name # "" /\ field_name # FieldName(D, D.racer_table[row].field_id)
    THEN AssignRows(D, row + 1, field_name, start_time, interval, dry_run,
                    starts_overwritten)
    ELSE AssignRows(
             IF ~dry_run THEN setData(D, "racer_table", row, "start", start_time).db ELSE D,
             row + 1, field_name, start_time + interval * 1000, interval, dry_run,
             IF dry_run /\ D.racer_table[row].start # MSECS_UNINITIALIZED
             THEN starts_overwritten + 1 ELSE starts_overwritten)

\* assign_start_times without the test of the start time.
assign_start_times_any_start(D, field_name, start_time, interval, dry_run) ==
    IF field_name # "" /\ id_from_name(D, field_name) = 0 THEN Raise(D, "InputError")
    ELSE AssignRows(D, 1, field_name, start_time, interval, dry_run, 0)

\* RacerTableModel.assign_start_times (lines 1050-1090).  field_name "" stands
\* for a field name that is not given (None or ''); start_time is the
\* argument start, an int.
assign_start_times(D, field_name, start_time, interval, dry_run) ==
    IF field_name # "" /\ id_from_name(D, field_name) = 0 THEN Raise(D, "InputError")
    ELSE IF ~msecs_is_valid(start_time) THEN Raise(D, "InputError")
    ELSE AssignRows(D, 1, field_name, start_time, interval, dry_run, 0)

\* old_datetime.msecsTo(new_datetime) (line 1101), for datetimes given as
\* milliseconds since the epoch.
msecsTo(old_datetime, new_datetime) == new_datetime - old_datetime

\* The rebase adding the difference instead of subtracting it.
change_reference_clock_datetime_add(D, old_datetime, new_datetime) ==
    IF old_datetime = new_datetime THEN Return(D, <<>>)
    ELSE LET delta_msecs == msecsTo(old_datetime, new_datetime)
             Rebase(msecs) == IF msecs_is_valid(msecs) THEN msecs + delta_msecs
                              ELSE msecs
             rows == [row \in 1..Len(D.racer_table) |->
                         [D.racer_table[row] EXCEPT !.start = Rebase(@),
                                                    !.finish = Rebase(@)]]
             submitted == submitAll([D EXCEPT !.editStrategy = "OnManualSubmit"],
                                    "racer_table", rows)
         IN  IF submitted.raised # "none" THEN submitted
             ELSE Return([submitted.db EXCEPT !.editStrategy = "OnFieldChange"], <<>>)

\* RacerTableModel.change_reference_clock_datetime (lines 1092-1113): under
\* OnManualSubmit (line 1099) the values set in the loop stay in the cache of
\* the model, rows, and reach the table with submitAll (line 1112); line 1113
\* is reached when submitAll has not raised.
change_reference_clock_datetime(D, old_datetime, new_datetime) ==
    IF old_datetime = new_datetime THEN Return(D, <<>>)
    ELSE LET delta_msecs == msecsTo(old_datetime, new_datetime)
             Rebase(msecs) == IF msecs_is_valid(msecs) THEN msecs - delta_msecs
                              ELSE msecs
             rows == [row \in 1..Len(D.racer_table) |->
                         [D.racer_table[row] EXCEPT !.start = Rebase(@),
                                                    !.finish = Rebase(@)]]
             submitted == submitAll([D EXCEPT !.editStrategy = "OnManualSubmit"],
                                    "racer_table", rows)
         IN  IF submitted.raised # "none" THEN submitted
             ELSE Return([submitted.db EXCEPT !.editStrategy = "OnFieldChange"], <<>>)

\* RaceTableModel.change_reference_clock_datetime (lines 562-568).
RaceTableModel_change_reference_clock_datetime(D, old_datetime, new_datetime) ==
    IF old_datetime = new_datetime THEN Return(D, <<>>)
    ELSE change_reference_clock_datetime(D, old_datetime, new_datetime)

\* RacerTableModel.racer_count_total_in_field (lines 1119-1129), from row
\* on, with the count so far.
RECURSIVE CountTotal(_, _, _, _)
CountTotal(D, field_name, row, count) ==
    IF row > Len(D.racer_table) THEN count
    ELSE CountTotal(D, field_name, row + 1,
                    IF FieldName(D, D.racer_table[row].field_id) = field_name
                    THEN count + 1 ELSE count)

racer_count_total_in_field(D, field_name) ==
    Return(D, <<CountTotal(D, field_name, 1, 0)>>)

\* The loop of racer_count_finished_in_field counting the rows whose finish
\* is a valid time-delta.
RECURSIVE CountFinishedValid(_, _, _, _)
CountFinishedValid(D, field_name, row, count) ==
    IF row > Len(D.racer_table) THEN count
    ELSE CountFinishedValid(D, field_name, row + 1,
                    IF /\ FieldName(D, D.racer_table[row].field_id) = field_name
                       /\ msecs_is_valid(D.racer_table[row].finish)
                    THEN count + 1 ELSE count)

\* RacerTableModel.racer_count_finished_in_field (lines 1131-1143), from row
\* on, with the count so far.
RECURSIVE CountFinished(_, _, _, _)
CountFinished(D, field_name, row, count) ==
    IF row > Len(D.racer_table) THEN count
    ELSE CountFinished(D, field_name, row + 1,
                    IF /\ FieldName(D, D.racer_table[row].field_id) = field_name
                       /\ D.racer_table[row].finish # MSECS_UNINITIALIZED
                    THEN count + 1 ELSE count)

racer_count_finished_in_field(D, field_name) ==
    Return(D, <<CountFinished(D, field_name, 1, 0)>>)

\* RaceTableModel.get_race_property (lines 436-446).
get_race_property(D, key) ==
    LET row == match(D.race_table, "key", key)
    IN  IF row = 0 THEN Return(D, <<>>)
        ELSE Return(D, <<D.race_table[row].value>>)

\* set_race_property adding a row whether or not the key has one.
set_race_property_always_insert(D, key, value) ==
    LET record == [id |-> NextId(D.race_table), key |-> key, value |-> value]
        inserted == insertRecord(D, "race_table", record)
    IN  IF inserted.raised # "none" THEN inserted
        ELSE Return(inserted.db, <<>>)

\* RaceTableModel.set_race_property (lines 448-467).  The result of setData
\* is not looked at.
set_race_property(D, key, value) ==
    LET row == match(D.race_table, "key", key)
        record == [id |-> NextId(D.race_table), key |-> key, value |-> value]
        inserted == insertRecord(D, "race_table", record)
    IN  IF row = 0
        THEN IF inserted.raised # "none" THEN inserted
             ELSE Return(inserted.db, <<>>)
        ELSE Return(setData(D, "race_table", row, "value", value).db, <<>>)

\* delete_race_property emptying the value of the key's row.
delete_race_property_empty_value(D, key) ==
    LET row == match(D.race_table, "key", key)
    IN  IF row = 0 THEN Return(D, <<>>)
        ELSE Return(setData(D, "race_table", row, "value", "").db, <<>>)

\* RaceTableModel.delete_race_property (lines 469-479).
delete_race_property(D, key) ==
    LET row == match(D.race_table, "key", key)
        removed == removeRow(D, "race_table", row)
    IN  IF row = 0 THEN Return(D, <<>>)
        ELSE IF removed.raised # "none" THEN removed
        ELSE Return(removed.db, <<>>)

\* RaceTableModel.enable_reference_clock (lines 499-501).
enable_reference_clock(D) == set_race_property(D, "reference_clock_enabled", "")

\* RaceTableModel.disable_reference_clock (lines 503-510).
disable_reference_clock(D) == delete_race_property(D, "reference_clock_enabled")

\* RaceTableModel.reference_clock_is_enabled (lines 512-514).
reference_clock_is_enabled(D) ==
    Return(D, <<get_race_property(D, "reference_clock_enabled").value # <<>> >>)

\* The store after ModelDatabase.__init__ on a new file (lines 127-154):
\* every table is empty.
NoCall == [op |-> "none", args |-> <<>>, raised |-> "none", value |-> <<>>]

StoreInit ==
    /\ race_table = <<>>
    /\ field_table = <<>>
    /\ racer_table = <<>>
    /\ result_table = <<>>
    /\ failing = FALSE
    /\ faults = <<>>
    /\ editStrategy = "OnFieldChange"
    /\ call = NoCall
    /\ prior = NoCall
    /\ calls = 0

-----------------------------------------------------------------------------
(* Initial state: the table after __init__ (lines 496-550): empty run-list, *)
(* timer started, every tool added with status Incomplete; the main window  *)
(* then sets the two settings from the saved check boxes (lines 808-816).   *)

TableInit ==
    /\ run_list = <<>>
    /\ run_timer = TRUE
    /\ skip_dependencies \in BOOLEAN
    /\ halt_on_failure \in BOOLEAN
    /\ status = [t \in Tools |-> STATUS_INCOMPLETE]
    /\ item_status = [t \in Tools |-> STATUS_INCOMPLETE]
    /\ pc = [t \in Tools |-> "idle"]
    /\ events = <<>>
    /\ emitted = <<>>
    /\ exited = FALSE
    /\ awaiting = [t \in Tools |-> {}]
    /\ commands = 0
    /\ resets = 0
    /\ stale = FALSE
    /\ last = Op("init", "none")
    /\ step = [t \in Tools |-> 0]
    /\ run_result = [t \in Tools |-> "none"]

Init == TableInit /\ StoreInit

\* The scheduler as __init__ leaves it (lines 511, 514), for the behaviours
\* of the race store.
TableIdle == TableInit /\ ~skip_dependencies /\ ~halt_on_failure

-----------------------------------------------------------------------------
(* GUI-thread handlers *)

\* One more user command is issued.
Command ==
    /\ commands < MaxCommands
    /\ commands' = commands + 1

\* A Run button is clicked (lines 690-693).
handle_tool_start(tool) ==
    /\ ~exited
    /\ Command
    /\ Becomes(add_to_run_list(Table, tool, skip_dependencies))
    /\ last' = Op("run", tool)
    /\ UNCHANGED store_vars
    /\ UNCHANGED <<skip_dependencies, halt_on_failure, events, resets, stale,
                   step, run_result>>

\* The Run All button (lines 712-718).
RunAll ==
    /\ ~exited
    /\ Command
    /\ resets' = resets + 1
    /\ stale' = (stale \/ \E t \in Tools : pc[t] # "idle" \/ events # <<>>)
    /\ Becomes(run_all_tools(Table, skip_dependencies))
    /\ last' = Op("run_all", "none")
    /\ UNCHANGED store_vars
    /\ UNCHANGED <<skip_dependencies, halt_on_failure, events, step, run_result>>

\* The Reset Status button (lines 720-725).
ResetStatus ==
    /\ ~exited
    /\ Command
    /\ resets' = resets + 1
    /\ stale' = (stale \/ \E t \in Tools : pc[t] # "idle" \/ events # <<>>)
    /\ Becomes(reset_tool_status(Table))
    /\ last' = Op("reset", "none")
    /\ UNCHANGED store_vars
    /\ UNCHANGED <<skip_dependencies, halt_on_failure, events, step, run_result>>

\* The Skip Dependencies check box is toggled (lines 706-707); toggled(bool)
\* is emitted when the box changes state.
toggle_skip_dependencies(checked) ==
    /\ ~exited
    /\ Command
    /\ checked # skip_dependencies
    /\ skip_dependencies' = checked
    /\ emitted' = <<>>
    /\ last' = Op("toggle", "none")
    /\ UNCHANGED store_vars
    /\ UNCHANGED <<run_list, run_timer, halt_on_failure, status, item_status,
                   pc, events, exited, awaiting, resets, stale, step, run_result>>

\* The Halt on failure check box is toggled (lines 709-710).
toggle_halt_on_failure(checked) ==
    /\ ~exited
    /\ Command
    /\ checked # halt_on_failure
    /\ halt_on_failure' = checked
    /\ emitted' = <<>>
    /\ last' = Op("toggle", "none")
    /\ UNCHANGED store_vars
    /\ UNCHANGED <<run_list, run_timer, skip_dependencies, status, item_status,
                   pc, events, exited, awaiting, resets, stale, step, run_result>>

\* run_timer.timeout: the single-shot timer fires and check_run_list runs.
TimerTimeout ==
    /\ ~exited
    /\ run_timer
    /\ \E ub \in UBOutcomes :
         Becomes(check_run_list([Table EXCEPT !.run_timer = FALSE],
                                halt_on_failure, ub))
    /\ last' = Op("timeout", "none")
    /\ UNCHANGED store_vars
    /\ UNCHANGED <<skip_dependencies, halt_on_failure, events, commands,
                   resets, stale, step, run_result>>

\* The queued status_changed(metadata, status) of a tool is delivered
\* (lines 699-700).
DeliverStatusChanged ==
    /\ ~exited
    /\ events # <<>>
    /\ Head(events).sig = "status_changed"
    /\ events' = Tail(events)
    /\ Becomes(set_status(Table, Head(events).tool, Head(events).status,
                          "handle_tool_status_changed"))
    /\ last' = Op("status_changed", Head(events).tool)
    /\ UNCHANGED store_vars
    /\ UNCHANGED <<skip_dependencies, halt_on_failure, commands, resets, stale,
                   step, run_result>>

\* The queued finished() of a tool is delivered (lines 702-704).
DeliverFinished ==
    /\ ~exited
    /\ events # <<>>
    /\ Head(events).sig = "finished"
    /\ events' = Tail(events)
    /\ \E ub \in UBOutcomes :
         Becomes(handle_tool_finished(Table, halt_on_failure, ub))
    /\ last' = Op("finished", Head(events).tool)
    /\ UNCHANGED store_vars
    /\ UNCHANGED <<skip_dependencies, halt_on_failure, commands, resets, stale,
                   step, run_result>>

-----------------------------------------------------------------------------
(* Worker-thread steps *)

StatusChanged(tool, s) == [sig |-> "status_changed", tool |-> tool, status |-> s]

Finished(tool) == [sig |-> "finished", tool |-> tool, status |-> STATUS_INCOMPLETE]

\* change_status (lines 83-88) as called on the worker thread: the write of
\* tool.status, the status_changed emission and, for Success and Failure,
\* the finished emission.
change_status(tool, s) ==
    /\ status' = [status EXCEPT ![tool] = s]
    /\ events' = events \o <<StatusChanged(tool, s)>>
                 \o (IF s \in {STATUS_SUCCESS, STATUS_FAILURE}
                     THEN <<Finished(tool)>> ELSE <<>>)

\* run() is entered on the started thread: change_status(STATUS_IN_PROGRESS)
\* (line 177).
RunBegin(tool) ==
    /\ ~exited
    /\ pc[tool] = "started"
    /\ Len(events) + 1 <= MaxEvents
    /\ change_status(tool, STATUS_IN_PROGRESS)
    /\ pc' = [pc EXCEPT ![tool] = "running"]
    /\ step' = [step EXCEPT ![tool] = 0]
    /\ run_result' = [run_result EXCEPT ![tool] = "none"]
    /\ emitted' = <<>>
    /\ last' = Op("worker", tool)
    /\ UNCHANGED store_vars
    /\ UNCHANGED <<run_list, run_timer, skip_dependencies, halt_on_failure,
                   item_status, exited, awaiting, commands, resets, stale>>

\* The end of a tool's run(), for any tool that reports its result through
\* change_status: Success or Failure (lines 83-88).
RunEnd(tool, s) ==
    /\ ~exited
    /\ pc[tool] = "running"
    /\ Len(events) + 2 <= MaxEvents
    /\ change_status(tool, s)
    /\ pc' = [pc EXCEPT ![tool] = "idle"]
    /\ awaiting' = [t \in Tools |-> awaiting[t] \ {tool}]
    /\ emitted' = <<>>
    /\ last' = Op("worker", tool)
    /\ UNCHANGED store_vars
    /\ UNCHANGED <<run_list, run_timer, skip_dependencies, halt_on_failure,
                   item_status, exited, commands, resets, stale, step, run_result>>

\* One run_subprocess call of run() (lines 109-146, called at lines 183-188):
\* the command runs to its end, whatever its exit status and however long it
\* takes (the timeout argument is read at line 118 and not used; the caller
\* ignores the returned process), and run() goes on to its next statement.
run_subprocess(tool, outcome) ==
    /\ ~exited
    /\ pc[tool] = "running"
    /\ step[tool] < NumCommands
    /\ step' = [step EXCEPT ![tool] = @ + 1]
    /\ run_result' = [run_result EXCEPT
                         ![tool] = IF @ \in {"none", "ok"} THEN outcome ELSE @]
    /\ emitted' = <<>>
    /\ last' = Op("worker", tool)
    /\ UNCHANGED store_vars
    /\ UNCHANGED <<run_list, run_timer, skip_dependencies, halt_on_failure,
                   status, item_status, pc, events, exited, awaiting,
                   commands, resets, stale>>

\* The last statement of run() of the four tools (lines 191, 223, 277, 311):
\* change_status(STATUS_SUCCESS), after all the commands have been issued.
run(tool) ==
    /\ step[tool] = NumCommands
    /\ RunEnd(tool, STATUS_SUCCESS)

-----------------------------------------------------------------------------
(* Spec: the scheduler, with tools whose run() may end in Success or in      *)
(* Failure.                                                                 *)

Next ==
    \/ \E tool \in Tools : handle_tool_start(tool)
    \/ RunAll
    \/ ResetStatus
    \/ \E checked \in BOOLEAN : toggle_skip_dependencies(checked)
    \/ \E checked \in BOOLEAN : toggle_halt_on_failure(checked)
    \/ TimerTimeout
    \/ DeliverStatusChanged
    \/ DeliverFinished
    \/ \E tool \in Tools : RunBegin(tool)
    \/ \E tool \in Tools, s \in {STATUS_SUCCESS, STATUS_FAILURE} : RunEnd(tool, s)

Spec == Init /\ [][Next]_vars

(* SpecRun: the scheduler with run() of the four tools as written: six      *)
(* external commands, then change_status(STATUS_SUCCESS).                   *)

NextRun ==
    \/ \E tool \in Tools : handle_tool_start(tool)
    \/ TimerTimeout
    \/ DeliverStatusChanged
    \/ DeliverFinished
    \/ \E tool \in Tools : RunBegin(tool)
    \/ \E tool \in Tools, outcome \in Outcomes : run_subprocess(tool, outcome)
    \/ \E tool \in Tools : run(tool)

SpecRun == Init /\ [][NextRun]_vars

(* SpecProgress: the scheduler when no tool fails and no reset is issued     *)
(* (no Reset Status, no Run All).  Fairness: the event loop of the GUI      *)
(* thread handles a timer that is due and every queued signal, and a        *)
(* started worker thread runs: it enters run() and run() comes to its end.  *)

NextProgress ==
    \/ \E tool \in Tools : handle_tool_start(tool)
    \/ \E checked \in BOOLEAN : toggle_skip_dependencies(checked)
    \/ \E checked \in BOOLEAN : toggle_halt_on_failure(checked)
    \/ TimerTimeout
    \/ DeliverStatusChanged
    \/ DeliverFinished
    \/ \E tool \in Tools : RunBegin(tool)
    \/ \E tool \in Tools : RunEnd(tool, STATUS_SUCCESS)

Fairness ==
    /\ WF_vars(TimerTimeout)
    /\ WF_vars(DeliverStatusChanged)
    /\ WF_vars(DeliverFinished)
    /\ \A tool \in Tools : WF_vars(RunBegin(tool))
    /\ \A tool \in Tools : WF_vars(RunEnd(tool, STATUS_SUCCESS))

SpecProgress == Init /\ [][NextProgress]_vars /\ Fairness

-----------------------------------------------------------------------------
(* Calls of the race store *)

\* One call of a store method: the tables become what the method leaves,
\* whether it returns or raises.
StoreCall(op, args, result) ==
    /\ calls < MaxCalls
    /\ calls' = calls + 1
    /\ prior' = call
    /\ call' = [op |-> op, args |-> args, raised |-> result.raised,
                value |-> result.value, dataChanged |-> result.db.dataChanged,
                failing |-> failing, before |-> Database]
    /\ race_table' = result.db.race_table
    /\ field_table' = result.db.field_table
    /\ racer_table' = result.db.racer_table
    /\ result_table' = result.db.result_table
    /\ faults' = result.db.faults
    /\ editStrategy' = result.db.editStrategy
    /\ UNCHANGED <<failing, table_vars>>

AddField(name) ==
    StoreCall("add_field", [name |-> name], add_field(Database, name))

\* The racer form of the arguments bib .. age with the defaults of line 822
\* for the others.
RacerArgs(bib, first_name, last_name, field, category, team, age) ==
    [bib |-> bib, first_name |-> first_name, last_name |-> last_name,
     field |-> field, category |-> category, team |-> team, age |-> age,
     start |-> MSECS_UNINITIALIZED, finish |-> MSECS_UNINITIALIZED,
     status |-> "", metadata |-> "{}"]

\* add_racer(bib, first_name, last_name, field, category, team, age), as the
\* import calls it (src/gui.py line 694).
AddRacer(bib, first_name, last_name, field, category, team, age) ==
    LET args == RacerArgs(bib, first_name, last_name, field, category, team, age)
    IN  StoreCall("add_racer", args,
                  add_racer(Database, bib, first_name, last_name, field, category,
                            team, age, args.start, args.finish, args.status,
                            args.metadata))

AddResult(scratchpad, finish) ==
    StoreCall("add_result", [scratchpad |-> scratchpad, finish |-> finish],
              add_result(Database, scratchpad, finish))

\* submit_result(row) for a row of the result table.
SubmitResult(row) ==
    /\ row \in 1..Len(result_table)
    /\ StoreCall("submit_result", [row |-> row], submit_result(Database, row))

AssignStartTimes(field_name, start_time, interval, dry_run) ==
    StoreCall("assign_start_times",
              [field_name |-> field_name, start |-> start_time,
               interval |-> interval, dry_run |-> dry_run],
              assign_start_times(Database, field_name, start_time, interval, dry_run))

ChangeReferenceClock(old_datetime, new_datetime) ==
    StoreCall("change_reference_clock_datetime",
              [old_datetime |-> old_datetime, new_datetime |-> new_datetime],
              RaceTableModel_change_reference_clock_datetime(
                  Database, old_datetime, new_datetime))

\* update_racer with the arguments args, a record of bib and of the ten
\* columns.
UpdateRacer(args) ==
    StoreCall("update_racer", args,
              update_racer(Database, args.bib, args.first_name, args.last_name,
                           args.field, args.category, args.team, args.age,
                           args.start, args.finish, args.status, args.metadata))

DeleteRacer(bib) ==
    StoreCall("delete_racer", [bib |-> bib], delete_racer(Database, bib))

RacerExists(bib) ==
    StoreCall("racer_exists", [bib |-> bib], racer_exists(Database, bib))

GetRacerMetadata(bib) ==
    StoreCall("get_racer_metadata", [bib |-> bib], get_racer_metadata(Database, bib))

SetRacerMetadata(bib, metadata) ==
    StoreCall("set_racer_metadata", [bib |-> bib, metadata |-> metadata],
              set_racer_metadata(Database, bib, metadata))

SetRacerStart(bib, start_time) ==
    StoreCall("set_racer_start", [bib |-> bib, start |-> start_time],
              set_racer_start(Database, bib, start_time))

SetRacerFinish(bib, finish) ==
    StoreCall("set_racer_finish", [bib |-> bib, finish |-> finish],
              set_racer_finish(Database, bib, finish))

SetRacerStatus(bib, racer_status) ==
    StoreCall("set_racer_status", [bib |-> bib, status |-> racer_status],
              set_racer_status(Database, bib, racer_status))

RacerCountTotalInField(field_name) ==
    StoreCall("racer_count_total_in_field", [field_name |-> field_name],
              racer_count_total_in_field(Database, field_name))

RacerCountFinishedInField(field_name) ==
    StoreCall("racer_count_finished_in_field", [field_name |-> field_name],
              racer_count_finished_in_field(Database, field_name))

GetRaceProperty(key) ==
    StoreCall("get_race_property", [key |-> key], get_race_property(Database, key))

SetRaceProperty(key, value) ==
    StoreCall("set_race_property", [key |-> key, value |-> value],
              set_race_property(Database, key, value))

DeleteRaceProperty(key) ==
    StoreCall("delete_race_property", [key |-> key],
              delete_race_property(Database, key))

EnableReferenceClock ==
    StoreCall("enable_reference_clock", [key |-> "reference_clock_enabled"],
              enable_reference_clock(Database))

DisableReferenceClock ==
    StoreCall("disable_reference_clock", [key |-> "reference_clock_enabled"],
              disable_reference_clock(Database))

ReferenceClockIsEnabled ==
    StoreCall("reference_clock_is_enabled", [key |-> "reference_clock_enabled"],
              reference_clock_is_enabled(Database))

\* The storage engine starts to fail: the file can no longer be written or
\* read.  Every insertRecord, removeRow, submitAll and setData after it
\* reports failure.
EngineFails ==
    /\ ~failing
    /\ failing' = TRUE
    /\ UNCHANGED <<race_table, field_table, racer_table, result_table, faults,
                   editStrategy, call, prior, calls, table_vars>>

-----------------------------------------------------------------------------
(* Race files.  ModelDatabase.__init__ (lines 127-154) opens the file it is  *)
(* given: the tables hold the rows earlier sessions have written.  Such a   *)
(* file keeps the constraints of the tables: ids and bibs are unique, and   *)
(* every racer's field_id is the id of a field.                             *)

SavedFields == <<[id |-> 1, name |-> "A"], [id |-> 2, name |-> "B"]>>

\* The bibs of the racers of a race file, in table order.
BibText == <<"1", "2", "3", "4", "5">>

Cell(field_id, start_time, finish, racer_status) ==
    [field_id |-> field_id, start |-> start_time, finish |-> finish,
     status |-> racer_status]

\* The racer table whose i-th row has the columns cells[i].
Roster(cells) ==
    [i \in 1..Len(cells) |->
        [id |-> i, bib |-> BibText[i], first_name |-> "Ann", last_name |-> "Lee",
         field_id |-> cells[i].field_id, category |-> "", team |-> "", age |-> 0,
         start |-> cells[i].start, finish |-> cells[i].finish,
         status |-> cells[i].status, metadata |-> "{}"]]

Rosters(Cells) == {Roster(cells) : cells \in UNION {[1..n -> Cells] : n \in 0..MaxRacers}}

\* The result table whose i-th row has the columns cells[i].
Scratch(cells) ==
    [i \in 1..Len(cells) |->
        [id |-> i, scratchpad |-> cells[i].scratchpad, finish |-> cells[i].finish]]

ResultCells ==
    {[scratchpad |-> "1", finish |-> 5000],
     [scratchpad |-> "2", finish |-> MSECS_DNF],
     [scratchpad |-> "01", finish |-> 6000]}

SavedResults == {Scratch(cells) : cells \in UNION {[1..n -> ResultCells] : n \in 0..MaxResults}}

SubmitCells ==
    {Cell(1, 0, MSECS_UNINITIALIZED, ""), Cell(2, 0, 4000, "remote")}

StartCells ==
    {Cell(field_id, start_time, MSECS_UNINITIALIZED, "") :
        field_id \in {1, 2}, start_time \in {MSECS_UNINITIALIZED, MSECS_DNS}}

ClockCells ==
    {Cell(1, MSECS_UNINITIALIZED, MSECS_UNINITIALIZED, ""),
     Cell(1, 0, 5000, "local"),
     Cell(2, MSECS_DNS, MSECS_DNF, ""),
     Cell(2, MSECS_SMALLEST_VALID + 1, MSECS_DNP, "")}

-----------------------------------------------------------------------------
(* SpecStore: fields and racers are added to a new race file.               *)

FieldNames == {"A", "B"}

NextStore ==
    \/ \E name \in FieldNames \cup {""} : AddField(name)
    \/ \E bib \in {"1", "2", "01"}, name \in {"", "Ann"}, field \in FieldNames \cup {""} :
          AddRacer(bib, name, "", field, "", "", 0)

InitStore == TableIdle /\ StoreInit

SpecStore == InitStore /\ [][NextStore]_vars

(* SpecSubmit: results are entered and submitted in a race file.            *)

InitSubmit ==
    /\ TableIdle
    /\ race_table = <<>>
    /\ field_table = SavedFields
    /\ racer_table \in Rosters(SubmitCells)
    /\ result_table \in SavedResults
    /\ failing = FALSE
    /\ faults = <<>>
    /\ editStrategy = "OnFieldChange"
    /\ call = NoCall
    /\ prior = NoCall
    /\ calls = 0

NextSubmit ==
    \/ \E row \in 1..(MaxResults + MaxCalls) : SubmitResult(row)
    \/ \E cell \in ResultCells : AddResult(cell.scratchpad, cell.finish)

SpecSubmit == InitSubmit /\ [][NextSubmit]_vars

(* SpecStart: start times are assigned in a race file.                      *)

InitStart ==
    /\ TableIdle
    /\ race_table = <<>>
    /\ field_table = SavedFields
    /\ racer_table \in Rosters(StartCells)
    /\ result_table = <<>>
    /\ failing = FALSE
    /\ faults = <<>>
    /\ editStrategy = "OnFieldChange"
    /\ call = NoCall
    /\ prior = NoCall
    /\ calls = 0

NextStart ==
    \E field_name \in {"", "A", "Z"}, start_time \in {1000, MSECS_SMALLEST_VALID},
       interval \in {0, 30}, dry_run \in BOOLEAN :
        AssignStartTimes(field_name, start_time, interval, dry_run)

SpecStart == InitStart /\ [][NextStart]_vars

(* SpecClock: the reference clock of a race file is changed.  A datetime is  *)
(* the number of milliseconds from the epoch to it.                         *)

Datetimes == {0, 1, 60}

InitClock ==
    /\ TableIdle
    /\ race_table = <<>>
    /\ field_table = SavedFields
    /\ racer_table \in Rosters(ClockCells)
    /\ result_table = <<>>
    /\ failing = FALSE
    /\ faults = <<>>
    /\ editStrategy = "OnFieldChange"
    /\ call = NoCall
    /\ prior = NoCall
    /\ calls = 0

NextClock ==
    \E old_datetime \in Datetimes, new_datetime \in Datetimes :
        ChangeReferenceClock(old_datetime, new_datetime)

SpecClock == InitClock /\ [][NextClock]_vars

(* SpecRacers: racers are added, changed, looked up and removed in a race   *)
(* file, times are entered for them and results are submitted.              *)

\* The bibs the calls are made with: no bib, the bibs of the first two
\* racers of a race file, and a bib written with a leading zero.
Bibs == {"", "1", "2", "01"}

\* The bibs the racers are looked up by.
LookupBibs == {"1", "01"}

RacerFiles ==
    {Roster(cells) : cells \in
        {<<>>,
         <<Cell(1, MSECS_UNINITIALIZED, MSECS_UNINITIALIZED, "")>>,
         <<Cell(1, MSECS_UNINITIALIZED, MSECS_UNINITIALIZED, ""),
           Cell(1, 0, MSECS_DNF, "local"),
           Cell(1, MSECS_UNINITIALIZED, MSECS_UNINITIALIZED, "")>>,
         <<Cell(1, MSECS_UNINITIALIZED, MSECS_UNINITIALIZED, ""),
           Cell(2, 0, 5000, "local")>>}}

ResultFiles == {<<>>, Scratch(<<[scratchpad |-> "1", finish |-> MSECS_DNS]>>)}

\* The arguments update_racer is called with: the columns the call does not
\* name have the defaults of line 888.
UpdateArgs ==
    {RacerArgs(bib, first_name, IF first_name = "" THEN "" ELSE "Lee", field, "",
               team, 0) :
        bib \in LookupBibs, first_name \in {"", "Ann"}, field \in {"", "A", "Z"},
        team \in {"", "T"}}

InitRacers ==
    /\ TableIdle
    /\ race_table = <<>>
    /\ field_table = SavedFields
    /\ racer_table \in RacerFiles
    /\ result_table \in ResultFiles
    /\ failing = FALSE
    /\ faults = <<>>
    /\ editStrategy = "OnFieldChange"
    /\ call = NoCall
    /\ prior = NoCall
    /\ calls = 0

NextRacers ==
    \/ \E name \in {"", "A", "Z"} : AddField(name)
    \/ \E bib \in Bibs, first_name \in {"", "Ann"}, field \in {"", "A", "Z"} :
          AddRacer(bib, first_name, "", field, "", "", 0)
    \/ \E args \in UpdateArgs : UpdateRacer(args)
    \/ \E bib \in LookupBibs : DeleteRacer(bib)
    \/ \E bib \in LookupBibs : RacerExists(bib)
    \/ \E bib \in LookupBibs : GetRacerMetadata(bib)
    \/ \E bib \in LookupBibs : SetRacerMetadata(bib, "{\"a\": 1}")
    \/ \E bib \in LookupBibs : SetRacerStart(bib, 1000)
    \/ \E bib \in LookupBibs, finish \in {5000, MSECS_DNP} : SetRacerFinish(bib, finish)
    \/ \E bib \in LookupBibs : SetRacerStatus(bib, "remote")
    \/ \E field_name \in {"A", "B"} : RacerCountTotalInField(field_name)
    \/ \E field_name \in {"A", "B"} : RacerCountFinishedInField(field_name)
    \/ \E cell \in {[scratchpad |-> "1", finish |-> 5000],
                    [scratchpad |-> "01", finish |-> 6000]} :
          AddResult(cell.scratchpad, cell.finish)
    \/ \E row \in 1..(1 + MaxCalls) : SubmitResult(row)

SpecRacers == InitRacers /\ [][NextRacers]_vars

(* SpecRace: the properties of the race are set, read and deleted.          *)

Keys == {"name", "reference_clock_enabled"}

\* The race table of a new file and of files whose properties were set by
\* earlier sessions.
RaceFiles ==
    {<<>>,
     <<[id |-> 1, key |-> "name", value |-> "Vuelta"]>>,
     <<[id |-> 1, key |-> "reference_clock_enabled", value |-> ""],
       [id |-> 3, key |-> "name", value |-> ""]>>}

InitRace ==
    /\ TableIdle
    /\ race_table \in RaceFiles
    /\ field_table = <<>>
    /\ racer_table = <<>>
    /\ result_table = <<>>
    /\ failing = FALSE
    /\ faults = <<>>
    /\ editStrategy = "OnFieldChange"
    /\ call = NoCall
    /\ prior = NoCall
    /\ calls = 0

NextRace ==
    \/ \E key \in Keys : GetRaceProperty(key)
    \/ \E key \in Keys, value \in {"", "Tour", "Giro"} : SetRaceProperty(key, value)
    \/ \E key \in Keys : DeleteRaceProperty(key)
    \/ EnableReferenceClock
    \/ DisableReferenceClock
    \/ ReferenceClockIsEnabled

SpecRace == InitRace /\ [][NextRace]_vars

(* SpecFailure: calls are made on a race file while the storage engine may  *)
(* start to fail.                                                           *)

NextFailure ==
    \/ EngineFails
    \/ \E name \in {"", "A", "Z"} : AddField(name)
    \/ \E bib \in LookupBibs : DeleteRacer(bib)
    \/ \E bib \in LookupBibs, finish \in {MSECS_UNINITIALIZED, 5000} :
          SetRacerFinish(bib, finish)
    \/ \E key \in Keys, value \in {"", "Tour"} : SetRaceProperty(key, value)
    \/ \E key \in Keys : DeleteRaceProperty(key)
    \/ \E cell \in ResultCells : AddResult(cell.scratchpad, cell.finish)
    \/ \E row \in 1..(1 + MaxCalls) : SubmitResult(row)
    \/ \E field_name \in {"", "A"}, dry_run \in BOOLEAN :
          AssignStartTimes(field_name, 1000, 30, dry_run)
    \/ \E old_datetime \in Datetimes, new_datetime \in Datetimes :
          ChangeReferenceClock(old_datetime, new_datetime)

SpecFailure == InitRacers /\ [][NextFailure]_vars

-----------------------------------------------------------------------------
(* Properties *)

Executing == {t \in Tools : pc[t] # "idle"}

Emissions == {emitted[i] : i \in 1..Len(emitted)}

Terminal == {STATUS_SUCCESS, STATUS_FAILURE}

\* C1: single-flight: in every reachable state at most one tool is executing
\* (started and not yet finished).
C1_SingleFlight == Cardinality(Executing) <= 1

\* The dependencies of tool that a Run click on it places on the run-list:
\* those, in dependency-list order, that are not Success and not yet queued.
ExpectedDependencies(tool) ==
    SelectSeq(Dependencies(tool),
              LAMBDA d : status[d] # STATUS_SUCCESS /\ ~InList(run_list, d))

\* C2: a Run click on a tool that is not queued appends its dependencies that
\* are neither Success nor queued, in dependency-list order, and then the tool
\* (with Skip Dependencies set, only the tool); every appended tool shows
\* Pending and no other row changes.
C2_EnqueueOrder ==
    [][\A tool \in Tools :
         (last' = Op("run", tool) /\ commands' = commands + 1
            /\ ~InList(run_list, tool)) =>
           /\ run_list' = run_list
                \o (IF skip_dependencies THEN <<>> ELSE ExpectedDependencies(tool))
                \o <<tool>>
           /\ \A t \in Tools :
                item_status'[t] = IF InList(run_list', t) /\ ~InList(run_list, t)
                                  THEN STATUS_PENDING
                                  ELSE item_status[t]]_vars

\* C2 witness: from the initial statuses, Run on camera has queued imu_bias, imu,
\* camera in this order and the three show Pending.
C2_Witness ==
    /\ last = Op("run", "camera")
    /\ commands = 1
    /\ run_list = <<"imu_bias", "imu", "camera">>
    /\ \A t \in {"imu_bias", "imu", "camera"} : item_status[t] = STATUS_PENDING

\* C3: as long as no reset has occurred, a tool is executing only when every
\* dependency that its enqueue placed on the run-list has finished a run since
\* (reached Success or Failure).
C3_DependenciesFirst ==
    resets = 0 => \A t \in Tools : pc[t] # "idle" => awaiting[t] = {}

\* C3 witness: Run on camera was the only command, both dependencies have run
\* to a terminal status and camera has just been started.
C3_Witness ==
    /\ resets = 0
    /\ commands = 1
    /\ ~skip_dependencies
    /\ last = Op("finished", "imu")
    /\ pc["camera"] = "started"
    /\ status["imu_bias"] \in Terminal
    /\ status["imu"] \in Terminal

\* C4: with Halt on failure set, when the finished signal of the head tool is
\* handled, that tool has status Failure and other tools are still queued,
\* the run-list is cleared, none of the queued tools is started, they show
\* Incomplete, and every combined status emitted is Failure.
C4_HaltOnFailure ==
    [][(/\ events # <<>>
        /\ Head(events).sig = "finished"
        /\ events' = Tail(events)
        /\ halt_on_failure
        /\ Len(run_list) >= 2
        /\ Head(run_list) = Head(events).tool
        /\ status[Head(run_list)] = STATUS_FAILURE) =>
          /\ run_list' = <<>>
          /\ \A i \in 2..Len(run_list) :
               /\ pc'[run_list[i]] = pc[run_list[i]]
               /\ item_status'[run_list[i]] = STATUS_INCOMPLETE
          /\ emitted' # <<>>
          /\ \A i \in 1..Len(emitted') : emitted'[i].agg = STATUS_FAILURE]_vars

NoDuplicates(list) ==
    \A i, j \in 1..Len(list) : i # j => list[i] # list[j]

\* C5: no step leaves a tool on the run-list more than once, and a Run click
\* on a tool that is already queued leaves the run-list as it was.
C5_RunListDedup ==
    [][/\ NoDuplicates(run_list')
       /\ \A tool \in Tools :
            (last' = Op("run", tool) /\ commands' = commands + 1
               /\ InList(run_list, tool)) => run_list' = run_list]_vars

\* C5 witness: Run was clicked on a tool that was already queued behind
\* another one (the click set no status).
C5_Witness ==
    /\ last.op = "run"
    /\ emitted = <<>>
    /\ Len(run_list) >= 2
    /\ InList(run_list, last.tool)

\* The rollup as claimed: In Progress, else Failure, else Pending if a row
\* shows Pending, else Incomplete, else Success.
ClaimedRollup(st, shown) ==
    IF \E t \in Tools : st[t] = STATUS_IN_PROGRESS THEN STATUS_IN_PROGRESS
    ELSE IF \E t \in Tools : st[t] = STATUS_FAILURE THEN STATUS_FAILURE
    ELSE IF \E t \in Tools : shown[t] = STATUS_PENDING THEN STATUS_PENDING
    ELSE IF \E t \in Tools : st[t] = STATUS_INCOMPLETE THEN STATUS_INCOMPLETE
    ELSE STATUS_SUCCESS

\* C6: every combined status emitted by set_status is the rollup with the
\* precedence In Progress > Failure > Pending > Incomplete > Success, Pending
\* standing for a tool that is queued and shows Pending.
C6_Rollup ==
    \A e \in Emissions : e.agg = ClaimedRollup(e.status, e.item)

\* C7: the combined status emitted is Success only when the status of every
\* tool is Success.
C7_SuccessOnlyWhenAll ==
    \A e \in Emissions :
        e.agg = STATUS_SUCCESS => \A t \in Tools : e.status[t] = STATUS_SUCCESS

\* C7 witness: a combined status of Success has been emitted.
C7_Witness == \E e \in Emissions : e.agg = STATUS_SUCCESS

\* C8: right after Reset Status the run-list is empty and every tool's own
\* and displayed status is Incomplete.
C8_ResetAll ==
    last.op = "reset" =>
        /\ run_list = <<>>
        /\ \A t \in Tools : status[t] = STATUS_INCOMPLETE
                            /\ item_status[t] = STATUS_INCOMPLETE

\* C8 witness: Reset Status has just run in a state where one row showed
\* In Progress, one Pending and one Failure.
C8_Witness ==
    /\ last.op = "reset"
    /\ \E e \in Emissions : e.from = STATUS_IN_PROGRESS
    /\ \E e \in Emissions : e.from = STATUS_PENDING
    /\ \E e \in Emissions : e.from = STATUS_FAILURE

\* C9: a run in which an external command exited non-zero or did not complete
\* within the timeout ends with status Failure.
C9_FailureSurfaces ==
    \A t \in Tools :
        (pc[t] = "idle" /\ run_result[t] \in {"nonzero", "timeout"}) =>
            status[t] = STATUS_FAILURE

\* The transitions of the displayed status named by the state machine.
OriginalTransitions ==
    {<<STATUS_INCOMPLETE, STATUS_PENDING>>,
     <<STATUS_PENDING, STATUS_IN_PROGRESS>>,
     <<STATUS_IN_PROGRESS, STATUS_SUCCESS>>,
     <<STATUS_IN_PROGRESS, STATUS_FAILURE>>,
     <<STATUS_SUCCESS, STATUS_INCOMPLETE>>,
     <<STATUS_FAILURE, STATUS_INCOMPLETE>>,
     <<STATUS_PENDING, STATUS_INCOMPLETE>>}

\* C10 as stated: every change of a row's displayed status is one of
\* Incomplete->Pending, Pending->In Progress, In Progress->Success/Failure,
\* Success/Failure->Incomplete, Pending->Incomplete.
C10_OriginalTransitions ==
    \A e \in Emissions : e.from # e.to => <<e.from, e.to>> \in OriginalTransitions

\* The transitions named by the state machine, and Success->Pending and
\* Failure->Pending: a tool that has finished can be enqueued again.
RerunTransitions ==
    OriginalTransitions \cup {<<STATUS_SUCCESS, STATUS_PENDING>>,
                              <<STATUS_FAILURE, STATUS_PENDING>>}

\* Every change but Success<->Failure.
StaleTransitions ==
    (Statuses \X Statuses) \ {<<STATUS_SUCCESS, STATUS_FAILURE>>,
                              <<STATUS_FAILURE, STATUS_SUCCESS>>}

\* C10 amended: every change of a row's displayed status is one of the
\* transitions of the state machine or Success/Failure->Pending, unless a
\* reset has been issued while a tool was executing or had signals queued;
\* from then on the signals of that run are still delivered and only a direct
\* change between Success and Failure is excluded.
C10_Transitions ==
    \A e \in Emissions :
        e.from # e.to =>
            <<e.from, e.to>> \in (IF stale THEN StaleTransitions
                                  ELSE RerunTransitions)

\* C10 witness: without any reset, a tool that showed Success has been
\* enqueued again and shows Pending.
C10_Witness ==
    /\ resets = 0
    /\ \E e \in Emissions : e.from = STATUS_SUCCESS /\ e.to = STATUS_PENDING

-----------------------------------------------------------------------------
(* Progress of the queue *)

\* A step that starts a tool starts the head of the run-list, as the list is
\* when start() is called: after the finished tool has been removed.
StartsHead ==
    \A t \in Tools :
        (pc[t] = "idle" /\ pc'[t] # "idle") => (run_list' # <<>> /\ Head(run_list') = t)

\* A tool waits on the run-list: it is queued, it is not executing, and no
\* finished signal of it is still to be handled (a tool stays at the head of
\* the run-list from its start until its finished signal is handled).
Waiting(t) ==
    /\ InList(run_list, t)
    /\ pc[t] = "idle"
    /\ \A i \in 1..Len(events) : events[i] # Finished(t)

\* C11: when the poll timer fires, queued signals are handled and started
\* tools complete, no tool fails and no reset is issued: every tool waiting
\* on the run-list is eventually started, every started tool ends idle with status
\* Success, a tool is started only as the head of the run-list, and a
\* run-list that is not empty eventually is empty with the timer armed.
C11_QueueProgress ==
    /\ \A t \in Tools : Waiting(t) ~> (pc[t] # "idle")
    /\ \A t \in Tools : (pc[t] # "idle") ~> (pc[t] = "idle" /\ status[t] = STATUS_SUCCESS)
    /\ [][StartsHead]_vars
    /\ (run_list # <<>>) ~> (run_list = <<>> /\ run_timer)

\* Three tools were queued by one click, all have run to Success, and the
\* run-list is empty again with the timer armed.
C11_Witness ==
    /\ run_list = <<>>
    /\ run_timer
    /\ last.op = "finished"
    /\ Cardinality({t \in Tools : status[t] = STATUS_SUCCESS}) >= 3
    /\ commands = 1

-----------------------------------------------------------------------------
(* Properties of the race store.  call.before holds the tables as they were *)
(* before the last call, call.args its arguments.                           *)

Rows(table) == 1..Len(table)

Sentinels == {MSECS_UNINITIALIZED, MSECS_DNS, MSECS_DNF, MSECS_DNP}

\* The tables other than the racer table are as before the last call.
SameFieldsAndResults ==
    /\ field_table = call.before.field_table
    /\ result_table = call.before.result_table

\* All tables are as before the last call.
NothingChanged ==
    /\ SameFieldsAndResults
    /\ racer_table = call.before.racer_table

\* The Result row the last call, a submit_result, was given.
Submitted == call.before.result_table[call.args.row]

\* A racer of the table has this text as its bib.
HasBib(table, text) == \E i \in Rows(table) : table[i].bib = text

\* C12: submit_result on a Result row whose scratchpad is the bib of no
\* racer raises InputError, keeps the Result row, and changes no racer.
C12_SubmitNotFound ==
    (call.op = "submit_result"
     /\ ~HasBib(call.before.racer_table, Submitted.scratchpad))
    => /\ call.raised = "InputError"
       /\ NothingChanged

\* A row with scratchpad "01" was submitted while a racer has bib 1: the
\* text is the bib of no racer.
C12_Witness ==
    /\ call.op = "submit_result"
    /\ call.raised = "InputError"
    /\ Submitted.scratchpad = "01"
    /\ HasBib(racer_table, "1")
    /\ Len(result_table) = 2

\* C13: submit_result on a Result row whose scratchpad is a racer's bib sets
\* that racer's finish to the row's finish and its status to "local",
\* removes that Result row, and changes no other racer and no other Result
\* row.
C13_SubmitMatch ==
    (call.op = "submit_result"
     /\ HasBib(call.before.racer_table, Submitted.scratchpad))
    => /\ call.raised = "none"
       /\ Len(racer_table) = Len(call.before.racer_table)
       /\ \A i \in Rows(racer_table) :
              racer_table[i] =
                  IF call.before.racer_table[i].bib = Submitted.scratchpad
                  THEN [call.before.racer_table[i] EXCEPT
                           !.finish = Submitted.finish, !.status = "local"]
                  ELSE call.before.racer_table[i]
       /\ Len(result_table) = Len(call.before.result_table) - 1
       /\ \A i \in Rows(result_table) :
              result_table[i] =
                  call.before.result_table[IF i < call.args.row THEN i ELSE i + 1]
       /\ field_table = call.before.field_table

\* The first of two Result rows was submitted to the second of two racers.
C13_Witness ==
    /\ call.op = "submit_result"
    /\ call.raised = "none"
    /\ call.args.row = 1
    /\ Submitted.scratchpad = "2"
    /\ Len(racer_table) >= 2
    /\ Len(result_table) = 1
    /\ racer_table[2].status = "local"

\* C14: change_reference_clock_datetime(old, new) with old # new turns every
\* start and finish that is a valid time-delta into the value less the
\* milliseconds from old to new, and leaves every start and finish that is
\* UNINITIALIZED, DNS, DNF or DNP and every other column as it was; with
\* old = new nothing changes.
C14_Rebase ==
    call.op = "change_reference_clock_datetime"
    => LET old == call.args.old_datetime
           new == call.args.new_datetime
           Rebased(before, after) ==
               /\ msecs_is_valid(before) => after = before - (new - old)
               /\ before \in Sentinels => after = before
       IN  /\ call.raised = "none"
           /\ SameFieldsAndResults
           /\ Len(racer_table) = Len(call.before.racer_table)
           /\ old = new => racer_table = call.before.racer_table
           /\ old # new =>
                  \A i \in Rows(racer_table) :
                      /\ Rebased(call.before.racer_table[i].start, racer_table[i].start)
                      /\ Rebased(call.before.racer_table[i].finish, racer_table[i].finish)
                      /\ [racer_table[i] EXCEPT !.start = 0, !.finish = 0]
                         = [call.before.racer_table[i] EXCEPT !.start = 0, !.finish = 0]

\* The clock was moved by a minute in a table with a racer that has valid
\* times and a racer with DNS and DNF.
C14_Witness ==
    /\ call.op = "change_reference_clock_datetime"
    /\ call.args.new_datetime - call.args.old_datetime = 60
    /\ \E i \in Rows(racer_table) :
           /\ call.before.racer_table[i].start = 0
           /\ racer_table[i].start = -60
    /\ \E i \in Rows(racer_table) : racer_table[i].finish = MSECS_DNF

\* C15: change_reference_clock_datetime(A, B) followed by
\* change_reference_clock_datetime(B, A) gives every start and finish that
\* was a valid time-delta its original value back, and a start or finish
\* that was UNINITIALIZED, DNS, DNF or DNP is the same after each call.
C15_RoundTrip ==
    (/\ call.op = "change_reference_clock_datetime"
     /\ prior.op = "change_reference_clock_datetime"
     /\ call.args.old_datetime = prior.args.new_datetime
     /\ call.args.new_datetime = prior.args.old_datetime)
    => \A i \in Rows(racer_table) :
           LET Restored(original, between, after) ==
                   /\ msecs_is_valid(original) => after = original
                   /\ original \in Sentinels => (between = original /\ after = original)
           IN  /\ Restored(prior.before.racer_table[i].start,
                           call.before.racer_table[i].start, racer_table[i].start)
               /\ Restored(prior.before.racer_table[i].finish,
                           call.before.racer_table[i].finish, racer_table[i].finish)

\* Row i of the racer table of D falls under the field filter: no field name
\* is given, or the racer's field has that name.
InField(D, i, field_name) ==
    \/ field_name = ""
    \/ \E f \in Rows(D.field_table) :
           /\ D.field_table[f].id = D.racer_table[i].field_id
           /\ D.field_table[f].name = field_name

\* The racers before row i that fall under the field filter: how many.
Position(D, i, field_name) ==
    Cardinality({j \in 1..(i - 1) : InField(D, j, field_name)})

\* A field of the table has this name.
HasField(table, name) == \E f \in Rows(table) : table[f].name = name

\* The arguments of the last call, an assign_start_times, pass its checks.
AssignArgsValid ==
    /\ call.args.field_name # "" => HasField(call.before.field_table, call.args.field_name)
    /\ msecs_is_valid(call.args.start)

\* C16: assign_start_times(field, t0, interval, dry_run=False) gives the k-th
\* racer, in table order, of the racers of the field (of all racers when no
\* field is given) the start t0 + k * interval * 1000; the racers of other
\* fields keep their start and take no position.
C16_Stagger ==
    (call.op = "assign_start_times" /\ ~call.args.dry_run /\ AssignArgsValid)
    => /\ call.raised = "none"
       /\ SameFieldsAndResults
       /\ Len(racer_table) = Len(call.before.racer_table)
       /\ \A i \in Rows(racer_table) :
              racer_table[i] =
                  IF InField(call.before, i, call.args.field_name)
                  THEN [call.before.racer_table[i] EXCEPT
                           !.start = call.args.start
                                     + Position(call.before, i, call.args.field_name)
                                       * call.args.interval * 1000]
                  ELSE call.before.racer_table[i]

\* Field A was given start times 30 seconds apart; a racer of field B stands
\* between its two racers and keeps its DNS.
C16_Witness ==
    /\ call.op = "assign_start_times"
    /\ ~call.args.dry_run
    /\ call.args.field_name = "A"
    /\ call.args.interval = 30
    /\ Len(racer_table) = 3
    /\ racer_table[1].start = 1000
    /\ racer_table[2].start = MSECS_DNS
    /\ racer_table[2].field_id = 2
    /\ racer_table[3].start = 31000

\* C17: assign_start_times with dry_run=True changes no stored value and
\* returns the number of racers under the field filter whose start is not
\* UNINITIALIZED.
C17_DryRun ==
    (call.op = "assign_start_times" /\ call.args.dry_run)
    => /\ NothingChanged
       /\ AssignArgsValid =>
              /\ call.raised = "none"
              /\ call.value =
                     <<Cardinality({i \in Rows(racer_table) :
                           /\ InField(call.before, i, call.args.field_name)
                           /\ racer_table[i].start # MSECS_UNINITIALIZED})>>

\* A dry run for all racers returned 2: a racer of field A with a start time
\* that was assigned and a racer of field B with DNS; a third racer has no
\* start.
C17_Witness ==
    /\ call.op = "assign_start_times"
    /\ call.args.dry_run
    /\ call.args.field_name = ""
    /\ call.value = <<2>>
    /\ \E i \in Rows(racer_table) : msecs_is_valid(racer_table[i].start)
    /\ \E i \in Rows(racer_table) : racer_table[i].start = MSECS_DNS
    /\ \E i \in Rows(racer_table) : racer_table[i].start = MSECS_UNINITIALIZED

\* C18: assign_start_times raises InputError and changes no racer when the
\* field name is given and is the name of no field, or when the start time
\* is not a valid time-delta, in a dry run and in a real run.
C18_Validation ==
    (call.op = "assign_start_times" /\ ~AssignArgsValid)
    => /\ call.raised = "InputError"
       /\ NothingChanged

\* A real run for all racers with a start time that is not valid, in a table
\* with racers.
C18_Witness ==
    /\ call.op = "assign_start_times"
    /\ ~call.args.dry_run
    /\ call.args.field_name = ""
    /\ ~msecs_is_valid(call.args.start)
    /\ call.raised = "InputError"
    /\ Len(racer_table) >= 2

\* C19: add_field with a name that is in use raises InputError and leaves
\* one Field row with that name; add_field with the empty name raises
\* InputError and adds no row.  No two Field rows have the same name.
C19_AddFieldRejects ==
    /\ (call.op = "add_field"
        /\ (call.args.name = "" \/ HasField(call.before.field_table, call.args.name)))
       => /\ call.raised = "InputError"
          /\ NothingChanged
    /\ \A i \in Rows(field_table), j \in Rows(field_table) :
           i # j => field_table[i].name # field_table[j].name

\* add_field was called twice with the same name: the first call added the
\* row, the second raised.
C19_Witness ==
    /\ call.op = "add_field"
    /\ prior.op = "add_field"
    /\ prior.raised = "none"
    /\ call.args.name = prior.args.name
    /\ call.raised = "InputError"
    /\ Len(field_table) = 1

\* The arguments of the last call, an add_racer, are valid: the bib is not
\* in use, a name is given, and a field name is given.
AddRacerArgsValid ==
    /\ ~HasBib(call.before.racer_table, IntegerAffinity(call.args.bib))
    /\ call.args.first_name # "" \/ call.args.last_name # ""
    /\ call.args.field # ""

\* table is before with one row added at its end.
OneRowAdded(before, table) ==
    /\ Len(table) = Len(before) + 1
    /\ \A i \in Rows(before) : table[i] = before[i]

\* C20: add_racer with valid arguments and a field name that is the name of
\* no field adds one Field row with that name and one Racer row whose
\* field_id is the id of that row; with the name of a field it adds no Field
\* row and the new racer's field_id is the id of that field.
C20_AddRacerField ==
    (call.op = "add_racer" /\ AddRacerArgsValid)
    => /\ call.raised = "none"
       /\ result_table = call.before.result_table
       /\ OneRowAdded(call.before.racer_table, racer_table)
       /\ IF HasField(call.before.field_table, call.args.field)
          THEN field_table = call.before.field_table
          ELSE /\ OneRowAdded(call.before.field_table, field_table)
               /\ field_table[Len(field_table)].name = call.args.field
               /\ \A f \in Rows(call.before.field_table) :
                      field_table[f].id # field_table[Len(field_table)].id
       /\ \E f \in Rows(field_table) :
              /\ field_table[f].name = call.args.field
              /\ field_table[f].id = racer_table[Len(racer_table)].field_id

\* Two racers were added to a new file, each with a field that did not
\* exist: two fields, and the second racer is in the second.
C20_Witness ==
    /\ call.op = "add_racer"
    /\ call.raised = "none"
    /\ Len(racer_table) = 2
    /\ Len(field_table) = 2
    /\ Len(call.before.field_table) = 1
    /\ racer_table[2].field_id = field_table[2].id

-----------------------------------------------------------------------------
(* Properties of the racers.                                                *)

\* C21: add_racer with an empty bib, or with a bib that a racer of the table
\* has, raises InputError and adds no Racer row.
C21_AddRacerBib ==
    (call.op = "add_racer"
     /\ (call.args.bib = ""
         \/ HasBib(call.before.racer_table, IntegerAffinity(call.args.bib))))
    => /\ call.raised = "InputError"
       /\ racer_table = call.before.racer_table

\* C22: add_racer with both names empty, or with an empty field name, raises
\* InputError and changes neither the racer table nor the field table.
C22_AddRacerNames ==
    (call.op = "add_racer"
     /\ ((call.args.first_name = "" /\ call.args.last_name = "")
         \/ call.args.field = ""))
    => /\ call.raised = "InputError"
       /\ racer_table = call.before.racer_table
       /\ field_table = call.before.field_table

\* C23: no two Racer rows have the same bib, whatever calls of add_racer,
\* update_racer, delete_racer, set_racer_start, set_racer_finish,
\* set_racer_status, set_racer_metadata and submit_result were made, and
\* whether they returned or raised.
C23_BibUnique ==
    \A i \in Rows(racer_table), j \in Rows(racer_table) :
        i # j => racer_table[i].bib # racer_table[j].bib

\* A racer was added under the bib "01" while a racer had the bib 1: the call
\* raised and the table has the racers it had.
C23_Witness ==
    /\ call.op = "add_racer"
    /\ call.args.bib = "01"
    /\ call.args.first_name # ""
    /\ call.args.field # ""
    /\ HasBib(call.before.racer_table, "1")
    /\ call.raised # "none"
    /\ racer_table = call.before.racer_table

\* C24: every Racer row's field_id is the id of a Field row, and no two Field
\* rows have the same name, whatever calls of add_field, add_racer,
\* update_racer and delete_racer were made.
C24_FieldIntegrity ==
    /\ \A i \in Rows(racer_table) :
           \E f \in Rows(field_table) : field_table[f].id = racer_table[i].field_id
    /\ \A f \in Rows(field_table), g \in Rows(field_table) :
           f # g => field_table[f].name # field_table[g].name

\* update_racer moved a racer to a field that did not exist: the field was
\* added, and the racer's field_id is its id.
C24_Witness ==
    /\ call.op = "update_racer"
    /\ call.raised = "none"
    /\ ~HasField(call.before.field_table, call.args.field)
    /\ \E i \in Rows(racer_table), f \in Rows(field_table) :
           /\ racer_table[i].bib = call.args.bib
           /\ field_table[f].name = call.args.field
           /\ field_table[f].id = racer_table[i].field_id
           /\ call.before.racer_table[i].field_id # racer_table[i].field_id

\* The row of the racer the last call, an update_racer, named by its bib.
Updated ==
    CHOOSE i \in Rows(call.before.racer_table) :
        call.before.racer_table[i].bib = call.args.bib

\* The value the last call, an update_racer, supplied for a column: for the
\* field column the id of the field it named.
Supplied(column) ==
    IF column = "field_id"
    THEN (CHOOSE id \in {field_table[f].id : f \in Rows(field_table)} :
              \E f \in Rows(field_table) :
                  field_table[f].id = id /\ field_table[f].name = call.args.field)
    ELSE call.args[column]

\* The columns whose supplied value differs from the value the racer had.
Differing ==
    {column \in {UpdateColumns[k] : k \in 1..Len(UpdateColumns)} :
        call.before.racer_table[Updated][column] # Supplied(column)}

\* C25: an update_racer that returns has emitted dataChanged once for each
\* column whose supplied value differs from the stored one and for no other
\* column (with only the team different: once, for the team column), the
\* racer has the supplied value in these columns, and every other column of
\* the racer and every other racer is as before.
C25_ColumnDiff ==
    (call.op = "update_racer" /\ call.raised = "none")
    => /\ Len(call.dataChanged) = Cardinality(Differing)
       /\ {call.dataChanged[k] : k \in 1..Len(call.dataChanged)}
              = {<<Updated, column>> : column \in Differing}
       /\ Len(racer_table) = Len(call.before.racer_table)
       /\ \A i \in Rows(racer_table) :
              racer_table[i] =
                  IF i = Updated
                  THEN [column \in DOMAIN racer_table[i] |->
                           IF column \in Differing THEN Supplied(column)
                           ELSE call.before.racer_table[i][column]]
                  ELSE call.before.racer_table[i]

\* The methods that look a racer up by its bib and raise when there is none.
LookupOps ==
    {"update_racer", "delete_racer", "get_racer_metadata", "set_racer_metadata",
     "set_racer_start", "set_racer_finish", "set_racer_status"}

\* C26: update_racer, delete_racer, get_racer_metadata, set_racer_metadata,
\* set_racer_start, set_racer_finish and set_racer_status with a bib that no
\* racer has raise InputError and change neither the racer table nor the
\* field table; racer_exists returns False for such a bib.
C26_LookupByBib ==
    (call.op \in LookupOps \cup {"racer_exists"}
     /\ ~HasBib(call.before.racer_table, call.args.bib))
    => /\ IF call.op = "racer_exists"
          THEN call.raised = "none" /\ call.value = <<FALSE>>
          ELSE call.raised = "InputError"
       /\ racer_table = call.before.racer_table
       /\ field_table = call.before.field_table

\* update_racer was called with the bib "01" and a field that does not
\* exist, in a file whose racers have the bibs 1 and 2: not found, and no
\* field was added.
C26_Witness ==
    /\ call.op = "update_racer"
    /\ call.args.bib = "01"
    /\ call.args.first_name # ""
    /\ call.args.field = "Z"
    /\ Len(call.before.racer_table) = 2
    /\ call.raised = "InputError"
    /\ ~HasField(field_table, "Z")

-----------------------------------------------------------------------------
(* Properties of the race properties.                                       *)

\* C27: the race table has at most one row for a key, whatever calls of
\* set_race_property and delete_race_property were made.
C27_OneRowPerKey ==
    \A i \in Rows(race_table), j \in Rows(race_table) :
        i # j => race_table[i].key # race_table[j].key

\* A key was set twice, to two values: the table has one row for it, with
\* the second value.
C27_Witness ==
    /\ call.op = "set_race_property"
    /\ prior.op = "set_race_property"
    /\ call.args.key = prior.args.key
    /\ call.args.value # prior.args.value
    /\ Cardinality({i \in Rows(race_table) : race_table[i].key = call.args.key}) = 1
    /\ \E i \in Rows(race_table) :
           race_table[i].key = call.args.key /\ race_table[i].value = call.args.value

\* What get_race_property(key) returns on the tables D.
Got(D, key) == get_race_property(D, key).value

\* The keys other than the last call's have the values they had before it.
OtherKeysKept ==
    \A key \in Keys \ {call.args.key} : Got(Database, key) = Got(call.before, key)

\* C28: after set_race_property(k, v), get_race_property(k) returns v, the
\* empty string when v is empty; after delete_race_property(k), and in a new
\* file, it returns None; a set or a delete of k keeps what it returns for
\* every other key; a get changes nothing and, right after a set or a delete
\* of its key, returns the value set or None.
C28_Upsert ==
    /\ (calls = 0 /\ race_table = <<>>) => \A key \in Keys : Got(Database, key) = <<>>
    /\ call.op \in {"set_race_property", "enable_reference_clock"}
       => /\ call.raised = "none"
          /\ Got(Database, call.args.key)
                 = <<IF call.op = "set_race_property" THEN call.args.value ELSE "">>
          /\ OtherKeysKept
    /\ call.op \in {"delete_race_property", "disable_reference_clock"}
       => /\ call.raised = "none"
          /\ Got(Database, call.args.key) = <<>>
          /\ OtherKeysKept
    /\ call.op = "get_race_property"
       => /\ race_table = call.before.race_table
          /\ call.value = Got(call.before, call.args.key)
          /\ (prior.op = "set_race_property" /\ prior.args.key = call.args.key)
             => call.value = <<prior.args.value>>
          /\ (prior.op = "delete_race_property" /\ prior.args.key = call.args.key)
             => call.value = <<>>
    /\ call.op = "reference_clock_is_enabled"
       => /\ race_table = call.before.race_table
          /\ call.value = <<Got(call.before, call.args.key) # <<>> >>
          /\ prior.op = "enable_reference_clock" => call.value = <<TRUE>>
          /\ prior.op = "disable_reference_clock" => call.value = <<FALSE>>

\* A key that had a value was set to the empty string and then read: the
\* empty string, not None.
C28_Witness ==
    /\ call.op = "get_race_property"
    /\ prior.op = "set_race_property"
    /\ prior.args.key = call.args.key
    /\ prior.args.value = ""
    /\ Got(prior.before, call.args.key) = <<"Vuelta">>
    /\ call.value = <<"">>
    /\ Got(Database, "reference_clock_enabled") = <<>>

-----------------------------------------------------------------------------
(* Properties of the counts, of the storage engine.                         *)

\* The racers of table D.racer_table whose field has this name.
RacersOf(D, field_name) ==
    {i \in Rows(D.racer_table) :
        \E f \in Rows(D.field_table) :
            /\ D.field_table[f].name = field_name
            /\ D.field_table[f].id = D.racer_table[i].field_id}

\* The racers of the field whose finish is not MSECS_UNINITIALIZED.
FinishedOf(D, field_name) ==
    {i \in RacersOf(D, field_name) : D.racer_table[i].finish # MSECS_UNINITIALIZED}

\* C29: for every field name, racer_count_finished_in_field returns the
\* number of racers of the field whose finish is not MSECS_UNINITIALIZED (a
\* finish of DNS, DNF or DNP counts), racer_count_total_in_field returns the
\* number of racers of the field, and the first is at most the second; the
\* two methods change no table.
C29_FieldCounts ==
    /\ \A field_name \in {"A", "B", "Z"} :
           LET finished == racer_count_finished_in_field(Database, field_name).value
               total == racer_count_total_in_field(Database, field_name).value
           IN  /\ finished = <<Cardinality(FinishedOf(Database, field_name))>>
               /\ total = <<Cardinality(RacersOf(Database, field_name))>>
               /\ finished[1] <= total[1]
    /\ call.op = "racer_count_finished_in_field"
       => /\ call.raised = "none"
          /\ call.value = <<Cardinality(FinishedOf(call.before, call.args.field_name))>>
          /\ NothingChanged
    /\ call.op = "racer_count_total_in_field"
       => /\ call.raised = "none"
          /\ call.value = <<Cardinality(RacersOf(call.before, call.args.field_name))>>
          /\ NothingChanged

\* The finished racers of a field were counted that has three racers, one
\* with a finish of DNF, one with a finish of DNP and one with none: two.
C29_Witness ==
    /\ call.op = "racer_count_finished_in_field"
    /\ call.value = <<2>>
    /\ Cardinality(RacersOf(Database, call.args.field_name)) = 3
    /\ \E i \in RacersOf(Database, call.args.field_name) :
           racer_table[i].finish = MSECS_DNF
    /\ \E i \in RacersOf(Database, call.args.field_name) :
           racer_table[i].finish = MSECS_DNP
    /\ \E i \in RacersOf(Database, call.args.field_name) :
           racer_table[i].finish = MSECS_UNINITIALIZED

\* The last call asked the storage engine for an operation: an insert, a
\* delete, a submit, or the update of a cell with a value it did not have.
AsksEngine ==
    \/ /\ call.op = "add_field"
       /\ call.args.name # ""
       /\ ~HasField(call.before.field_table, call.args.name)
    \/ call.op = "add_result"
    \/ /\ call.op = "delete_racer"
       /\ HasBib(call.before.racer_table, call.args.bib)
    \/ /\ call.op = "set_racer_finish"
       /\ \E i \in Rows(call.before.racer_table) :
              /\ call.before.racer_table[i].bib = call.args.bib
              /\ call.before.racer_table[i].finish # call.args.finish
    \/ /\ call.op = "set_race_property"
       /\ Got(call.before, call.args.key) # <<call.args.value>>
    \/ /\ call.op = "delete_race_property"
       /\ Got(call.before, call.args.key) # <<>>
    \/ /\ call.op = "submit_result"
       /\ HasBib(call.before.racer_table, Submitted.scratchpad)
    \/ /\ call.op = "assign_start_times"
       /\ AssignArgsValid
       /\ ~call.args.dry_run
       /\ \E i \in Rows(call.before.racer_table) :
              /\ InField(call.before, i, call.args.field_name)
              /\ call.before.racer_table[i].start
                     # call.args.start
                       + Position(call.before, i, call.args.field_name)
                         * call.args.interval * 1000
    \/ /\ call.op = "change_reference_clock_datetime"
       /\ call.args.old_datetime # call.args.new_datetime

\* C30: a store call that asks the storage engine for an operation while the
\* engine reports failure raises DatabaseError.
C30_StorageErrors ==
    (call.op # "none" /\ call.failing /\ AsksEngine) => call.raised = "DatabaseError"

-----------------------------------------------------------------------------
(* The time-delta codec: msecs_to_string (src/racemodel.py lines 70-93).    *)
(* A string that QTime.toString gives is kept as the sequence of its pieces, *)
(* each the text shown for one expression of the format (expr names the     *)
(* expression) or a literal text of the format (expr is "").  The string is *)
(* the concatenation of the texts.                                          *)

\* The largest value of the C int that QTime.addMSecs(int) takes.
INT_MAX == 2147483647

MSECS_PER_HOUR == 60 * 60 * 1000

MSECS_PER_DAY == 24 * MSECS_PER_HOUR

Lit(text) == [expr |-> "", text |-> text]

Exp(expr) == [expr |-> expr, text |-> ""]

\* QTime(0, 0).addMSecs(ms): the time of day ms milliseconds after midnight;
\* the time wraps at 24 hours, for a negative ms as well.
QTime_addMSecs(ms) ==
    LET t == ms % MSECS_PER_DAY
    IN  [hour |-> t \div MSECS_PER_HOUR, minute |-> (t \div 60000) % 60,
         second |-> (t \div 1000) % 60, msec |-> t % 1000]

\* n in at least width digits.
Digits(n, width) ==
    IF width >= 3 /\ n < 10 THEN "00" \o ToString(n)
    ELSE IF (width >= 3 /\ n < 100) \/ (width = 2 /\ n < 10) THEN "0" \o ToString(n)
    ELSE ToString(n)

\* The text QTime.toString shows for one expression.  With an AM/PM
\* expression in the format the hour is shown on the 12-hour clock.
Shown(time, expr, am_pm) ==
    CASE expr = "h" -> ToString(IF ~am_pm THEN time.hour
                                ELSE IF time.hour % 12 = 0 THEN 12 ELSE time.hour % 12)
      [] expr = "m" -> ToString(time.minute)
      [] expr = "mm" -> Digits(time.minute, 2)
      [] expr = "s" -> ToString(time.second)
      [] expr = "ss" -> Digits(time.second, 2)
      [] expr = "zzz" -> Digits(time.msec, 3)
      [] expr = "a" -> IF time.hour < 12 THEN "am" ELSE "pm"

\* QTime.toString(format), the format given as the sequence of its
\* expressions and literal texts.
toString(time, format) ==
    LET am_pm == \E i \in 1..Len(format) : format[i].expr = "a"
    IN  [i \in 1..Len(format) |->
            IF format[i].expr = "" THEN format[i]
            ELSE [expr |-> format[i].expr, text |-> Shown(time, format[i].expr, am_pm)]]

\* 'm:ss.zzz' (line 83).
MinutesFormat == <<Exp("m"), Lit(":"), Exp("ss"), Lit("."), Exp("zzz")>>

\* 'h:mm:ss.zzz' (line 81).
HoursFormat == <<Exp("h"), Lit(":"), Exp("mm"), Lit(":"), Exp("ss"), Lit("."), Exp("zzz")>>

\* '%s days, ' % days as QTime.toString reads it: the a of "days" is the
\* AM/PM expression and its s the seconds expression; d and y are no
\* expressions of a time and stay as they are.
DaysPrefix(days) == <<Lit(ToString(days)), Lit(" d"), Exp("a"), Lit("y"), Exp("s"), Lit(", ")>>

\* Lines 75-83: the format for the day count and the hour count of lines 72-73.
Format(days, hours) ==
    IF days # 0 /\ hours # 0 THEN DaysPrefix(days) \o HoursFormat
    ELSE IF days # 0 THEN DaysPrefix(days) \o MinutesFormat
    ELSE IF hours # 0 THEN HoursFormat
    ELSE MinutesFormat

\* Lines 84-91.
InvalidText(msecs) ==
    IF msecs \in {MSECS_DNF, MSECS_UNINITIALIZED} THEN "DNF"
    ELSE IF msecs = MSECS_DNP THEN "DNP"
    ELSE IF msecs = MSECS_DNS THEN "DNS"
    ELSE "unknown"

\* The pieces of the string msecs_to_string(msecs) returns (lines 71-93).
Pieces(msecs) ==
    IF msecs_is_valid(msecs)
    THEN LET days == msecs \div MSECS_PER_DAY
             hours == (msecs - days) \div MSECS_PER_HOUR
         IN  toString(QTime_addMSecs(msecs), Format(days, hours))
    ELSE <<Lit(InvalidText(msecs))>>

RECURSIVE Join(_)
Join(pieces) == IF pieces = <<>> THEN "" ELSE Head(pieces).text \o Join(Tail(pieces))

\* msecs_to_string(msecs) for a msecs that the C int of addMSecs holds.
msecs_to_string(msecs) == Join(Pieces(msecs))

\* msecs_to_string(INT_MAX + 1), the smallest value the C int of addMSecs
\* does not hold: the value is valid (line 72) and days and hours of lines
\* 72-73 are those of INT_MAX, 24 and 596, so line 77 calls
\* addMSecs(INT_MAX + 1).  The conversion of the argument raises
\* OverflowError where the binding checks for overflow, and keeps the low 32
\* bits, -INT_MAX - 1, where it does not.
msecs_to_string_above_int(D) ==
    LET days == INT_MAX \div MSECS_PER_DAY
        hours == (INT_MAX - days) \div MSECS_PER_HOUR
    IN  {Raise(D, "OverflowError"),
         Return(D, <<Join(toString(QTime_addMSecs(-INT_MAX - 1),
                                   Format(days, hours)))>>)}

\* The calls of the codec.  The argument of a call is args.msecs + args.above.
MsecsIsValid(msecs) ==
    StoreCall("msecs_is_valid", [msecs |-> msecs, above |-> 0],
              Return(Database, <<msecs_is_valid(msecs)>>))

MsecsToString(msecs) ==
    StoreCall("msecs_to_string", [msecs |-> msecs, above |-> 0],
              Return(Database, <<msecs_to_string(msecs)>>))

MsecsToStringAboveInt ==
    \E result \in msecs_to_string_above_int(Database) :
        StoreCall("msecs_to_string", [msecs |-> INT_MAX, above |-> 1], result)

(* SpecString: time-delta values are tested and shown.                      *)

\* The values the calls are made with: the reserved values and their
\* neighbours, negative values above them, and elapsed times under an hour,
\* under a day and of whole days with and without further hours.
Msecs ==
    {-maxsize - 1, MSECS_UNINITIALIZED, MSECS_DNS, MSECS_DNF, MSECS_DNP,
     MSECS_DNP + 1, MSECS_SMALLEST_VALID, MSECS_SMALLEST_VALID + 1,
     -MSECS_PER_DAY, -1, 0, 999, 61001, MSECS_PER_HOUR - 1, MSECS_PER_HOUR,
     12 * MSECS_PER_HOUR + 61001, MSECS_PER_DAY - 1, MSECS_PER_DAY,
     MSECS_PER_DAY + 61001, MSECS_PER_DAY + 13 * MSECS_PER_HOUR + 61001,
     2 * MSECS_PER_DAY, maxsize}

InitString == TableIdle /\ StoreInit

NextString ==
    \/ \E msecs \in Msecs : MsecsIsValid(msecs)
    \/ \E msecs \in Msecs : MsecsToString(msecs)
    \/ MsecsToStringAboveInt

SpecString == InitString /\ [][NextString]_vars

\* C35: msecs_is_valid(v) is true exactly for v >= 0: false for every
\* negative value, the four reserved values included.
C35_ValidIffNonNegative ==
    (call.op = "msecs_is_valid") => (call.value = <<call.args.msecs >= 0>>)

\* The part of C35 about the reserved values: none of them is valid.
C35_SentinelsInvalid ==
    (call.op = "msecs_is_valid" /\ call.args.msecs \in Sentinels)
        => (call.value = <<FALSE>>)


\* The strings msecs_to_string shows for the values that are not valid.
InvalidTexts == {"DNF", "DNP", "DNS", "unknown"}

\* C31: msecs_to_string returns a string for every 64-bit integer; it
\* returns "DNF" for UNINITIALIZED and DNF, "DNP" for DNP, "DNS" for DNS and
\* "unknown" for every other value at or below the validity threshold, and
\* none of these four strings for a valid value.
C31_TotalAndSentinels ==
    (call.op = "msecs_to_string") =>
        /\ call.raised = "none"
        /\ LET msecs == call.args.msecs
               string == call.value[1]
           IN  IF call.args.above = 0 /\ msecs <= MSECS_SMALLEST_VALID
               THEN string = (CASE msecs \in {MSECS_UNINITIALIZED, MSECS_DNF} -> "DNF"
                                [] msecs = MSECS_DNP -> "DNP"
                                [] msecs = MSECS_DNS -> "DNS"
                                [] OTHER -> "unknown")
               ELSE string \notin InvalidTexts

\* The part of C31 about the values the C int of addMSecs holds.
C31_WithinInt ==
    (call.op = "msecs_to_string" /\ call.args.above = 0) => C31_TotalAndSentinels

\* The string shows a days segment: it begins with the day count.
ShowsDays(pieces) == pieces[1].expr = ""

\* The string shows an hours segment.
ShowsHours(pieces) == \E i \in 1..Len(pieces) : pieces[i].expr = "h"

\* The text of the piece that shows expr.
TextOf(pieces, expr) ==
    LET i == CHOOSE i \in 1..Len(pieces) : pieces[i].expr = expr IN pieces[i].text

\* C36: for a valid v >= 0 the string of msecs_to_string(v) shows the days
\* segment only when v holds at least one whole day and the hours segment
\* only when the hour count of v is not zero, and the minutes, seconds and
\* milliseconds it shows are (v div 60000) mod 60, (v div 1000) mod 60 and
\* v mod 1000.
C36_Segments ==
    (call.op = "msecs_to_string" /\ call.args.above = 0 /\ call.args.msecs >= 0) =>
        LET v == call.args.msecs
            pieces == Pieces(v)
        IN  /\ call.value = <<Join(pieces)>>
            /\ ShowsDays(pieces) => v \div MSECS_PER_DAY # 0
            /\ ShowsHours(pieces) => (v \div MSECS_PER_HOUR) % 24 # 0
            /\ IF ShowsHours(pieces)
               THEN TextOf(pieces, "mm") = Digits((v \div 60000) % 60, 2)
               ELSE TextOf(pieces, "m") = ToString((v \div 60000) % 60)
            /\ TextOf(pieces, "ss") = Digits((v \div 1000) % 60, 2)
            /\ TextOf(pieces, "zzz") = Digits(v % 1000, 3)


\* C37: assign_start_times returns the number of racers under the field
\* filter whose start was already set, in a real run as in a dry run: the
\* real run returns what a dry run on the same table returns.
C37_RealRunCount ==
    (call.op = "assign_start_times" /\ ~call.args.dry_run /\ AssignArgsValid)
    => /\ call.raised = "none"
       /\ call.value =
              <<Cardinality({i \in Rows(call.before.racer_table) :
                    /\ InField(call.before, i, call.args.field_name)
                    /\ call.before.racer_table[i].start # MSECS_UNINITIALIZED})>>
       /\ call.value =
              assign_start_times(call.before, call.args.field_name, call.args.start,
                                 call.args.interval, TRUE).value


-----------------------------------------------------------------------------
(* SpecBusy: calls are made on a race file while the storage engine may     *)
(* fail single operations and work again.                                   *)

\* What the engine answers while the file is locked for a moment: it fails
\* the next operation, or the second or the third one from now.
Answers == {<<TRUE>>, <<FALSE, TRUE>>, <<FALSE, FALSE, TRUE>>}

\* Another process locks the file for a moment.
EngineBusy(answers) ==
    /\ ~failing
    /\ faults = <<>>
    /\ calls < MaxCalls
    /\ faults' = answers
    /\ UNCHANGED <<race_table, field_table, racer_table, result_table, failing,
                   editStrategy, call, prior, calls, table_vars>>

\* Race files with racers that have times, and with results for them.
BusyRacers ==
    {Roster(cells) : cells \in
        {<<Cell(1, 0, 5000, "local")>>,
         <<Cell(1, 0, MSECS_UNINITIALIZED, ""), Cell(2, 1000, MSECS_DNF, "")>>,
         <<Cell(1, 0, 5000, "local"), Cell(2, 1000, 6000, "remote")>>}}

BusyResults ==
    {<<>>, Scratch(<<[scratchpad |-> "1", finish |-> 7000]>>),
     Scratch(<<[scratchpad |-> "9", finish |-> 7000],
               [scratchpad |-> "2", finish |-> MSECS_DNF]>>)}

InitBusy ==
    /\ TableIdle
    /\ race_table = <<>>
    /\ field_table = SavedFields
    /\ racer_table \in BusyRacers
    /\ result_table \in BusyResults
    /\ failing = FALSE
    /\ faults = <<>>
    /\ editStrategy = "OnFieldChange"
    /\ call = NoCall
    /\ prior = NoCall
    /\ calls = 0

NextBusy ==
    \/ \E answers \in Answers : EngineBusy(answers)
    \/ EngineFails
    \/ \E old_datetime \in Datetimes, new_datetime \in Datetimes :
          ChangeReferenceClock(old_datetime, new_datetime)
    \/ \E row \in 1..2 : SubmitResult(row)
    \/ \E bib \in LookupBibs, finish \in {MSECS_UNINITIALIZED, 5000} :
          SetRacerFinish(bib, finish)
    \/ \E dry_run \in BOOLEAN : AssignStartTimes("", 1000, 30, dry_run)

SpecBusy == InitBusy /\ [][NextBusy]_vars

\* The racer table with every valid start and finish less delta_msecs.
Shifted(table, delta_msecs) ==
    [i \in Rows(table) |->
        [table[i] EXCEPT
            !.start = IF msecs_is_valid(@) THEN @ - delta_msecs ELSE @,
            !.finish = IF msecs_is_valid(@) THEN @ - delta_msecs ELSE @]]

\* C33: change_reference_clock_datetime writes the racers' new times as one
\* batch: the file never holds a racer table in which only some of the
\* racers have been shifted; it holds the table as it was before the call or
\* the table with every racer shifted.
C33_OneBatch ==
    (call.op = "change_reference_clock_datetime") =>
        \/ racer_table = call.before.racer_table
        \/ racer_table = Shifted(call.before.racer_table,
                                 msecsTo(call.args.old_datetime, call.args.new_datetime))

\* C34: submit_result removes the Result row only after the racer's finish
\* and status have been updated: when the Result row is gone after the call,
\* the racer with the row's bib has the row's finish and the status "local".
C34_RemoveAfterUpdate ==
    (call.op = "submit_result" /\ Len(result_table) < Len(call.before.result_table))
    => \E i \in Rows(racer_table) :
           /\ racer_table[i].bib = Submitted.scratchpad
           /\ racer_table[i].finish = Submitted.finish
           /\ racer_table[i].status = "local"

\* C40: when change_reference_clock_datetime finishes, by return or by the
\* DatabaseError of its submitAll, the edit strategy of the racer table is
\* OnFieldChange.
C40_EditStrategy ==
    (call.op = "change_reference_clock_datetime") => editStrategy = "OnFieldChange"


-----------------------------------------------------------------------------
(* Further properties of the scheduler *)

\* A tool has status Failure.
AnyFailure == \E t \in Tools : status[t] = STATUS_FAILURE

\* C32: with Halt on failure set, no step starts a tool in a state where a
\* tool of the table, queued or not, has status Failure; check_run_list then
\* leaves the run-list empty.  A failed tool that is queued again is not
\* started either, until reset_tool_status has set its status back.
C32_NoStartAfterFailure ==
    [][(halt_on_failure /\ AnyFailure) =>
          /\ \A t \in Tools : ~(pc[t] = "idle" /\ pc'[t] # "idle")
          /\ (last'.op \in {"timeout", "finished"} /\ ~exited') => run_list' = <<>>]_vars

\* check_run_list has found a failure and has halted: the failed tool had
\* been queued again and was shown Pending; it was not started.
C32_Witness ==
    /\ halt_on_failure
    /\ last.op = "timeout"
    /\ run_list = <<>>
    /\ \E e \in Emissions :
          /\ e.by = "remove_from_run_list"
          /\ e.from = STATUS_PENDING
          /\ status[e.tool] = STATUS_FAILURE
          /\ pc[e.tool] = "idle"

\* C38: when the finished signal of a tool is about to be handled by
\* handle_tool_finished, the run-list is not empty and its head is that tool.
C38_FinishedIsHead ==
    (~exited /\ events # <<>> /\ Head(events).sig = "finished")
    => (run_list # <<>> /\ Head(run_list) = Head(events).tool)

\* C38 while no reset has been issued during a run.
C38_WithoutStaleReset == ~stale => C38_FinishedIsHead

\* The step handles the finished signal of the head tool, which has status
\* Failure, without Halt on failure.
HeadFailed ==
    /\ ~exited
    /\ events # <<>>
    /\ Head(events).sig = "finished"
    /\ events' = Tail(events)
    /\ ~halt_on_failure
    /\ run_list # <<>>
    /\ Head(run_list) = Head(events).tool
    /\ status[Head(run_list)] = STATUS_FAILURE

\* The step keeps the rest of the run-list and what the rows show, and
\* starts the next head.
Continues ==
    /\ run_list' = Tail(run_list)
    /\ item_status' = item_status
    /\ Tail(run_list) # <<>> =>
          /\ pc[Head(Tail(run_list))] = "idle"
          /\ pc'[Head(Tail(run_list))] = "started"

\* C39: without Halt on failure, when the finished signal of the head tool is
\* handled and that tool has status Failure, the rest of the run-list stays
\* as it is, its first tool is started in the same step, and no row shows
\* another status than before.
C39_ContinueAfterFailure == [][HeadFailed => Continues]_vars

\* C39 while no reset has been issued during a run.
C39_WithoutStaleReset == [][(~stale /\ HeadFailed) => Continues]_vars

=============================================================================
